---- MODULE Spec2Model ----
(***************************************************************************)
(* A model of the tree-walking interpreter rLox: the value domain           *)
(* (value.rs), the scope chain (environment.rs), the evaluator              *)
(* (interpreter.rs), the call protocol (loxfunction.rs), the recursive      *)
(* descent parser (parser.rs) and the host loop that parses a source and    *)
(* feeds its statement list to interpret (main.rs).                         *)
(*                                                                         *)
(* The evaluator is a recursive function over the syntax tree that mutates  *)
(* the interpreter; it is written here as recursive operators that take     *)
(* the interpreter state s and give back [r |-> result, s |-> state].       *)
(* s.globals is Interpreter::globals, s.out is what println! has written,   *)
(* s.fuel bounds loop iterations and calls, and s.log is a history of what  *)
(* the evaluation did (it is written, never read, by the evaluator).        *)
(***************************************************************************)
EXTENDS Integers, Sequences, FiniteSets, TLC

(***************************************************************************)
(* Bounds of the model.                                                    *)
(***************************************************************************)
\* while-iterations plus calls one top-level statement may take
MaxFuel == 6
\* statement lists the host hands to interpret during one behaviour
MaxRuns == 2

(***************************************************************************)
(* token.rs: Token and Literal.                                            *)
(***************************************************************************)
Token(type, lexeme, line) == [token_type |-> type, lexeme |-> lexeme, line |-> line]

LitString(s) == [lt |-> "String", s |-> s]
LitNumber(n) == [lt |-> "Number", n |-> n]
LitBool(b) == [lt |-> "Bool", b |-> b]
LitNil == [lt |-> "Nil"]

(***************************************************************************)
(* value.rs: Value.  A Number is an f64; the model keeps the f64 values    *)
(* that are ratios of small integers, n/d in lowest terms with d > 0, and  *)
(* the three non-finite ones with d = 0: n = 1 is +inf, n = -1 is -inf and *)
(* n = 0 is NaN.  The sign of zero is not kept.                            *)
(***************************************************************************)
Abs(i) == IF i < 0 THEN -i ELSE i

RECURSIVE Gcd(_, _)
Gcd(a, b) == IF b = 0 THEN a ELSE Gcd(b, a % b)

Sign(i) == IF i > 0 THEN 1 ELSE IF i < 0 THEN -1 ELSE 0

Ratio(n, d) ==
    IF d = 0 THEN [t |-> "Number", n |-> Sign(n), d |-> 0]
    ELSE LET g == Gcd(Abs(n), Abs(d))
             sg == Sign(d)
         IN [t |-> "Number", n |-> (sg * n) \div g, d |-> (sg * d) \div g]

Number(n) == Ratio(n, 1)
Boolean(b) == [t |-> "Boolean", b |-> b]
String(s) == [t |-> "String", s |-> s]
Nil == [t |-> "Nil"]
\* LoxFunction::new
LoxFunction(name, params, body) ==
    [t |-> "LoxFunction", name |-> name, params |-> params, body |-> body]

IsNaN(v) == v.t = "Number" /\ v.d = 0 /\ v.n = 0

\* an equality that takes nil for false
ValueEq_nil_as_false(a, b) ==
    IF {a.t, b.t} = {"Nil", "Boolean"} THEN (IF a.t = "Boolean" THEN ~a.b ELSE ~b.b)
    ELSE IF a.t # b.t THEN FALSE
    ELSE IF a.t = "Number" THEN ~(a.d = 0 /\ a.n = 0) /\ a = b
    ELSE a = b

\* #[derive(PartialEq)] on Value: same variant and equal payload; f64 == is
\* false when either side is NaN
ValueEq(a, b) ==
    IF a.t # b.t THEN FALSE
    ELSE IF a.t = "Number" THEN ~IsNaN(a) /\ ~IsNaN(b) /\ a = b
    ELSE a = b

\* f64 partial_cmp on two Numbers: "Less", "Equal", "Greater" or "None"
NumCmp(a, b) ==
    IF IsNaN(a) \/ IsNaN(b) THEN "None"
    ELSE IF a.d = 0 /\ b.d = 0
         THEN (IF a.n = b.n THEN "Equal" ELSE IF a.n < b.n THEN "Less" ELSE "Greater")
    ELSE IF a.d = 0 THEN (IF a.n < 0 THEN "Less" ELSE "Greater")
    ELSE IF b.d = 0 THEN (IF b.n < 0 THEN "Greater" ELSE "Less")
    ELSE LET l == a.n * b.d
             r == b.n * a.d
         IN IF l = r THEN "Equal" ELSE IF l < r THEN "Less" ELSE "Greater"

\* impl PartialOrd for Value, on the pairs evaluate hands it: the comparison
\* operators reach it only after check_number_operands, with two Numbers
partial_cmp(a, b) ==
    IF a.t = "Number" /\ b.t = "Number" THEN NumCmp(a, b)
    ELSE "None"

\* Value::is_true
is_true(v) == IF v.t = "Boolean" THEN v.b ELSE FALSE

\* impl Neg for Value, on a Number
NumNeg(a) == Ratio(-a.n, a.d)

\* impl Add for Value, on two Numbers
NumAdd(a, b) ==
    IF IsNaN(a) \/ IsNaN(b) THEN Ratio(0, 0)
    ELSE IF a.d = 0 /\ b.d = 0 THEN (IF a.n = b.n THEN a ELSE Ratio(0, 0))
    ELSE IF a.d = 0 THEN a
    ELSE IF b.d = 0 THEN b
    ELSE Ratio(a.n * b.d + b.n * a.d, a.d * b.d)

\* impl Sub for Value, on two Numbers
NumSub(a, b) == NumAdd(a, NumNeg(b))

\* impl Mul for Value, on two Numbers
NumMul(a, b) ==
    IF IsNaN(a) \/ IsNaN(b) THEN Ratio(0, 0)
    ELSE IF a.d = 0 \/ b.d = 0 THEN Ratio(Sign(a.n) * Sign(b.n), 0)
    ELSE Ratio(a.n * b.n, a.d * b.d)

\* impl Div for Value, on two Numbers
NumDiv(a, b) ==
    IF IsNaN(a) \/ IsNaN(b) THEN Ratio(0, 0)
    ELSE IF a.d = 0 /\ b.d = 0 THEN Ratio(0, 0)
    ELSE IF a.d = 0 THEN Ratio(a.n * (IF b.n < 0 THEN -1 ELSE 1), 0)
    ELSE IF b.d = 0 THEN Ratio(0, 1)
    ELSE Ratio(a.n * b.d, a.d * b.n)

\* a ! that takes its operand's truth from Value::is_true
not_by_is_true(v) == Boolean(~is_true(v))

\* impl Not for Value
Not(v) ==
    LET b == IF v.t = "Boolean" THEN v.b
             ELSE IF v.t = "Nil" THEN FALSE
             ELSE TRUE
    IN Boolean(~b)

(***************************************************************************)
(* loxresult.rs: the Err side of Result<Value, LoxResult>, and Ok.  A      *)
(* panic (unreachable!, panic!) and an evaluation that outruns MaxFuel are *)
(* two further outcomes of an evaluation.                                  *)
(***************************************************************************)
Ok(v) == [k |-> "Ok", value |-> v]
RuntimeError(token, message) == [k |-> "RuntimeError", token |-> token, message |-> message]
ReturnValue(v) == [k |-> "ReturnValue", value |-> v]
Panic == [k |-> "Panic"]
Diverge == [k |-> "Diverge"]

\* what the ? operator passes on: everything that is not Ok
IsErr(r) == r.k # "Ok"

(***************************************************************************)
(* expr.rs and stmt.rs: the syntax tree.  None stands for Option::None.    *)
(***************************************************************************)
None == [k |-> "None"]

Binary(left, operator, right) ==
    [k |-> "Binary", left |-> left, operator |-> operator, right |-> right]
Grouping(expression) == [k |-> "Grouping", expression |-> expression]
Literal(value) == [k |-> "Literal", value |-> value]
Unary(operator, right) == [k |-> "Unary", operator |-> operator, right |-> right]
Variable(name) == [k |-> "Variable", name |-> name]
Assign(name, value) == [k |-> "Assign", name |-> name, value |-> value]
Logical(left, operator, right) ==
    [k |-> "Logical", left |-> left, operator |-> operator, right |-> right]
Call(callee, paren, arguments) ==
    [k |-> "Call", callee |-> callee, paren |-> paren, arguments |-> arguments]

Expression(expression) == [k |-> "Expression", expression |-> expression]
PrintStmt(expression) == [k |-> "Print", expression |-> expression]
Var(name, initializer) == [k |-> "Var", name |-> name, initializer |-> initializer]
Block(stmts) == [k |-> "Block", statements |-> stmts]
If(condition, then_branch, else_branch) ==
    [k |-> "If", condition |-> condition, then_branch |-> then_branch,
     else_branch |-> else_branch]
While(condition, body) == [k |-> "While", condition |-> condition, body |-> body]
Function(name, params, body) ==
    [k |-> "Function", name |-> name, params |-> params, body |-> body]
Return(keyword, value) == [k |-> "Return", keyword |-> keyword, value |-> value]

(***************************************************************************)
(* environment.rs: Environment.  An Environment owns its enclosing          *)
(* Environment (Option<Box<Environment>>), so an Environment is the chain  *)
(* of its frames: a sequence whose first element is the values map of the  *)
(* Environment itself and whose last element is the map of the root.       *)
(* Cloning an Environment copies the whole chain.                          *)
(***************************************************************************)
EmptyValues == [n \in {} |-> Nil]

\* Environment::new
Environment_new == <<EmptyValues>>

\* a define that overwrites the binding where the chain already has one, and
\* inserts in the local frame only when no frame defines the name
define_where_bound(env, name, value) ==
    IF \E j \in DOMAIN env : name \in DOMAIN env[j]
    THEN LET j == CHOOSE j \in DOMAIN env :
                      name \in DOMAIN env[j] /\ \A k \in 1 .. (j - 1) : name \notin DOMAIN env[k]
         IN [env EXCEPT ![j] = (name :> value) @@ env[j]]
    ELSE [env EXCEPT ![1] = (name :> value) @@ env[1]]

\* Environment::define
define(env, name, value) == [env EXCEPT ![1] = (name :> value) @@ env[1]]

\* Environment::new_enclosing
new_enclosing(enclosing) == <<EmptyValues>> \o enclosing

\* Environment::get_enclosing_env: an Option, <<e>> for Some(e) and <<>> for None
get_enclosing_env(env) == IF Len(env) > 1 THEN <<Tail(env)>> ELSE <<>>

UndefinedVariable(name) ==
    RuntimeError(name, "Undefined variable '" \o name.lexeme \o "'.")

\* a get that looks in its own values only, without going to the enclosing
\* Environment
get_own_values(env, name) ==
    IF name.lexeme \in DOMAIN env[1] THEN Ok(env[1][name.lexeme])
    ELSE UndefinedVariable(name)

\* Environment::get
RECURSIVE get(_, _)
get(env, name) ==
    IF name.lexeme \in DOMAIN env[1] THEN Ok(env[1][name.lexeme])
    ELSE IF Len(env) > 1 THEN get(Tail(env), name)
    ELSE UndefinedVariable(name)

\* an assign that, the chain exhausted, inserts the name in the root instead
\* of failing
RECURSIVE assign_or_define(_, _, _)
assign_or_define(env, name, value) ==
    IF name.lexeme \in DOMAIN env[1] \/ Len(env) = 1
    THEN [r |-> Ok(Nil), env |-> [env EXCEPT ![1] = (name.lexeme :> value) @@ env[1]]]
    ELSE LET e == assign_or_define(Tail(env), name, value)
         IN [r |-> e.r, env |-> <<env[1]>> \o e.env]

\* Environment::assign: the result and the Environment afterwards
RECURSIVE assign(_, _, _)
assign(env, name, value) ==
    IF name.lexeme \in DOMAIN env[1]
    THEN [r |-> Ok(Nil), env |-> [env EXCEPT ![1] = (name.lexeme :> value) @@ env[1]]]
    ELSE IF Len(env) > 1
         THEN LET e == assign(Tail(env), name, value)
              IN [r |-> e.r, env |-> <<env[1]>> \o e.env]
    ELSE [r |-> UndefinedVariable(name), env |-> env]

(***************************************************************************)
(* The history s.log: one record per thing the evaluation did, in order.   *)
(*   "stmt"     execute was entered for a statement of this kind            *)
(*   "define"   globals.define(name, value) by a Var or Function statement  *)
(*   "assign"   globals.assign(name, value) succeeded                       *)
(*   "raise"    a RuntimeError value was created                            *)
(*   "return"   a Return statement created its ReturnValue                  *)
(*   "logical"  a Logical expression finished                               *)
(*   "while"    a While statement tested its condition                      *)
(*   "block"    execute_block came back to Stmt::Block                      *)
(*   "call"     LoxFunction::call came back                                 *)
(*   "apply"    the Expr::Call arm has its callee and arguments as values   *)
(* "block" and "call" keep in start the length of the log when they began, *)
(* so that the records start+1 .. own index - 1 are what happened inside.  *)
(***************************************************************************)
Log(s, e) == [s EXCEPT !.log = Append(@, e)]

Raise(err, s) ==
    [r |-> err, s |-> Log(s, [ev |-> "raise", result |-> err, globals |-> s.globals])]

(***************************************************************************)
(* interpreter.rs: Interpreter.                                            *)
(***************************************************************************)
\* a check that raises its error at the end of the line, not at the operator
check_at_end_of_line(operator, left, right) ==
    IF left.t = "Number" /\ right.t = "Number" THEN Ok(Nil)
    ELSE RuntimeError(Token("EOF", "", operator.line), "Operand must be a number")

\* Interpreter::check_number_operands
check_number_operands(operator, left, right) ==
    IF left.t = "Number" /\ right.t = "Number" THEN Ok(Nil)
    ELSE RuntimeError(operator, "Operand must be a number")

\* Expr::Literal arm of evaluate
LiteralValue(value) ==
    IF value.lt = "String" THEN String(value.s)
    ELSE IF value.lt = "Number" THEN Number(value.n)
    ELSE IF value.lt = "Bool" THEN Boolean(value.b)
    ELSE Nil

\* impl Add for Value on the pairs the PLUS arm lets through
ValueAdd(left, right) ==
    IF left.t = "Number" THEN NumAdd(left, right) ELSE String(left.s \o right.s)

\* Expr::Binary arm of evaluate, once both operands are values
BinaryOp(operator, left, right) ==
    LET tt == operator.token_type
        chk == check_number_operands(operator, left, right)
        cmp == partial_cmp(left, right)
    IN IF tt = "PLUS"
       THEN (IF (left.t = "Number" /\ right.t = "Number")
                \/ (left.t = "String" /\ right.t = "String")
             THEN Ok(ValueAdd(left, right))
             ELSE RuntimeError(operator, "Operands must be two numbers or two strings."))
       ELSE IF tt = "MINUS" THEN (IF IsErr(chk) THEN chk ELSE Ok(NumSub(left, right)))
       ELSE IF tt = "STAR" THEN (IF IsErr(chk) THEN chk ELSE Ok(NumMul(left, right)))
       ELSE IF tt = "SLASH" THEN (IF IsErr(chk) THEN chk ELSE Ok(NumDiv(left, right)))
       ELSE IF tt = "EQUAL_EQUAL" THEN Ok(Boolean(ValueEq(left, right)))
       ELSE IF tt = "BANG_EQUAL" THEN Ok(Boolean(~ValueEq(left, right)))
       ELSE IF tt = "GREATER"
            THEN (IF IsErr(chk) THEN chk ELSE Ok(Boolean(cmp = "Greater")))
       ELSE IF tt = "GREATER_EQUAL"
            THEN (IF IsErr(chk) THEN chk ELSE Ok(Boolean(cmp \in {"Greater", "Equal"})))
       ELSE IF tt = "LESS"
            THEN (IF IsErr(chk) THEN chk ELSE Ok(Boolean(cmp = "Less")))
       ELSE IF tt = "LESS_EQUAL"
            THEN (IF IsErr(chk) THEN chk ELSE Ok(Boolean(cmp \in {"Less", "Equal"})))
       ELSE Panic

\* Expr::Unary arm of evaluate, once the operand is a value; impl Neg panics
\* on anything but a Number
UnaryOp(operator, right_value) ==
    IF operator.token_type = "MINUS"
    THEN (IF right_value.t = "Number" THEN Ok(NumNeg(right_value)) ELSE Panic)
    ELSE IF operator.token_type = "BANG" THEN Ok(Not(right_value))
    ELSE Panic

\* LoxCallable::arity for Value: <<n>>, or <<>> where it is unreachable!()
arity(callee) == IF callee.t = "LoxFunction" THEN <<Len(callee.params)>> ELSE <<>>

\* the parameter loop of LoxFunction::call
RECURSIVE DefineParams(_, _, _, _)
DefineParams(env, params, arguments, index) ==
    IF index > Len(params) THEN env
    ELSE DefineParams(define(env, params[index].lexeme, arguments[index]),
                      params, arguments, index + 1)

(***************************************************************************)
(* The methods of Interpreter and LoxFunction::call call one another       *)
(* recursively.  Invoke is such a call: it takes the callee and its        *)
(* arguments as a record and gives the callee's outcome.  self_evaluate,   *)
(* self_execute, self_execute_block and function_call are the call sites   *)
(* self.evaluate(..), self.execute(..), interpreter.execute_block(..) and  *)
(* function.call(..) of the source; the Next.. operators are the next turn *)
(* of a loop.                                                              *)
(***************************************************************************)
RECURSIVE Invoke(_)

self_evaluate(expr, s) == Invoke([f |-> "evaluate", expr |-> expr, s |-> s])

self_execute(stmt, s) == Invoke([f |-> "execute", stmt |-> stmt, s |-> s])

self_execute_block(stmts, environment, s) ==
    Invoke([f |-> "execute_block", stmts |-> stmts, environment |-> environment, s |-> s])

function_call(func, s, arguments) ==
    Invoke([f |-> "call", func |-> func, arguments |-> arguments, s |-> s])

NextArgument(arguments, i, parameters, s) ==
    Invoke([f |-> "arguments", arguments |-> arguments, i |-> i,
            parameters |-> parameters, s |-> s])

NextStatement(stmts, i, previous, s) ==
    Invoke([f |-> "statements", stmts |-> stmts, i |-> i, previous |-> previous, s |-> s])

NextIteration(condition, body, s) ==
    Invoke([f |-> "while", condition |-> condition, body |-> body, s |-> s])

\* the outcomes of an evaluation that never comes back: it panicked, or it ran
\* out of fuel
Lost == {"Panic", "Diverge"}

\* Expr::Logical arm of evaluate, once the left operand is a value
LogicalRight(expr, left, s) ==
    IF expr.operator.token_type = "OR"
    THEN [r |-> Ok(left), s |-> s, right |-> FALSE]
    ELSE LET e == self_evaluate(expr.right, s)
         IN [r |-> e.r, s |-> e.s, right |-> TRUE]

\* the arity test of the Expr::Call arm
ArityError(callee, paren, parameters) ==
    RuntimeError(paren, "Expect " \o ToString(arity(callee)[1]) \o " arguments but got "
                        \o ToString(Len(parameters)) \o ".")

\* an Expr::Call arm that fails only on too few arguments and lets a call
\* with too many go through
CallValue_accepting_more(callee, paren, parameters, s) ==
    IF arity(callee) = <<>> THEN [r |-> Panic, s |-> s]
    ELSE IF Len(parameters) < arity(callee)[1]
    THEN Raise(ArityError(callee, paren, parameters), s)
    ELSE function_call(callee, s, parameters)

\* Expr::Call arm of evaluate, once callee and arguments are values
CallValue(callee, paren, parameters, s) ==
    IF arity(callee) = <<>> THEN [r |-> Panic, s |-> s]
    ELSE IF Len(parameters) # arity(callee)[1]
    THEN Raise(ArityError(callee, paren, parameters), s)
    ELSE function_call(callee, s, parameters)

\* Interpreter::evaluate
evaluate(expr, s) ==
    CASE expr.k = "Binary" ->
        LET l == self_evaluate(expr.left, s) IN
        IF l.r.k # "Ok" THEN l ELSE
        LET r == self_evaluate(expr.right, l.s) IN
        IF r.r.k # "Ok" THEN r ELSE
        LET b == BinaryOp(expr.operator, l.r.value, r.r.value) IN
        IF b.k = "RuntimeError" THEN Raise(b, r.s) ELSE [r |-> b, s |-> r.s]
      [] expr.k = "Grouping" -> self_evaluate(expr.expression, s)
      [] expr.k = "Literal" -> [r |-> Ok(LiteralValue(expr.value)), s |-> s]
      [] expr.k = "Unary" ->
        LET r == self_evaluate(expr.right, s) IN
        IF r.r.k # "Ok" THEN r ELSE [r |-> UnaryOp(expr.operator, r.r.value), s |-> r.s]
      [] expr.k = "Variable" ->
        LET g == get(s.globals, expr.name) IN
        IF IsErr(g) THEN Raise(g, s) ELSE [r |-> g, s |-> s]
      [] expr.k = "Assign" ->
        LET v == self_evaluate(expr.value, s) IN
        IF v.r.k # "Ok" THEN v ELSE
        LET a == assign(v.s.globals, expr.name, v.r.value) IN
        IF a.r.k # "Ok" THEN Raise(a.r, v.s)
        ELSE [r |-> Ok(v.r.value),
              s |-> Log([v.s EXCEPT !.globals = a.env],
                        [ev |-> "assign", name |-> expr.name.lexeme, value |-> v.r.value])]
      [] expr.k = "Logical" ->
        LET l == self_evaluate(expr.left, s) IN
        IF l.r.k # "Ok" THEN l ELSE
        LET e == LogicalRight(expr, l.r.value, l.s) IN
        [r |-> e.r,
         s |-> Log(e.s, [ev |-> "logical", op |-> expr.operator.token_type,
                         left |-> l.r.value, right |-> e.right, result |-> e.r])]
      [] expr.k = "Call" ->
        LET c == self_evaluate(expr.callee, s) IN
        IF c.r.k # "Ok" THEN c ELSE
        LET a == NextArgument(expr.arguments, 1, <<>>, c.s) IN
        IF a.r.k # "Ok" THEN [r |-> a.r, s |-> a.s]
        ELSE CallValue(c.r.value, expr.paren, a.parameters,
                       Log(a.s, [ev |-> "apply", callee |-> c.r.value, paren |-> expr.paren,
                                 count |-> Len(a.parameters), entry |-> a.s.globals]))
      [] OTHER -> [r |-> Panic, s |-> s]

\* the argument loop of the Expr::Call arm, from argument i on
EvaluateArguments(arguments, i, parameters, s) ==
    IF i > Len(arguments) THEN [r |-> Ok(Nil), s |-> s, parameters |-> parameters]
    ELSE LET e == self_evaluate(arguments[i], s)
         IN IF e.r.k # "Ok" THEN [r |-> e.r, s |-> e.s, parameters |-> parameters]
            ELSE NextArgument(arguments, i + 1, Append(parameters, e.r.value), e.s)

\* LoxFunction::call without the ReturnValue arm of its match: the signal is
\* handed to the caller as it came
call_keeps_signal(func, s, arguments) ==
    IF s.fuel = 0 THEN [r |-> Diverge, s |-> s] ELSE
    LET env == DefineParams(s.globals, func.params, arguments, 1)
        b == self_execute_block(func.body, env, [s EXCEPT !.fuel = @ - 1])
    IN IF b.r.k \in Lost THEN b ELSE
       [r |-> b.r,
        s |-> Log(b.s, [ev |-> "call", start |-> Len(s.log), func |-> func,
                        arguments |-> arguments, entry |-> s.globals,
                        exit |-> b.s.globals, result |-> b.r, body |-> b.r.k])]

\* LoxFunction::call (reached through LoxCallable for Value)
call(func, s, arguments) ==
    IF s.fuel = 0 THEN [r |-> Diverge, s |-> s] ELSE
    LET env == DefineParams(s.globals, func.params, arguments, 1)
        b == self_execute_block(func.body, env, [s EXCEPT !.fuel = @ - 1])
        res == IF b.r.k = "ReturnValue" THEN Ok(b.r.value) ELSE b.r
    IN IF b.r.k \in Lost THEN b ELSE
       [r |-> res,
        s |-> Log(b.s, [ev |-> "call", start |-> Len(s.log), func |-> func,
                        arguments |-> arguments, entry |-> s.globals,
                        exit |-> b.s.globals, result |-> res, body |-> b.r.k])]

\* Interpreter::execute_block
execute_block(stmts, environment, s) ==
    LET previous == s.globals
        e == NextStatement(stmts, 1, previous, [s EXCEPT !.globals = environment])
        enclosing == get_enclosing_env(e.s.globals)
    IN IF e.r.k # "Ok" THEN e
       ELSE [r |-> Ok(Nil),
             s |-> IF enclosing # <<>> THEN [e.s EXCEPT !.globals = enclosing[1]] ELSE e.s]

\* a statement loop that hands an Err on without setting self.globals back
ExecuteStatements_keeping_changes(stmts, i, previous, s) ==
    IF i > Len(stmts) THEN [r |-> Ok(Nil), s |-> s]
    ELSE LET e == self_execute(stmts[i], s)
         IN IF e.r.k # "Ok" THEN e
            ELSE NextStatement(stmts, i + 1, previous, e.s)

\* the statement loop of execute_block, from statement i on
ExecuteStatements(stmts, i, previous, s) ==
    IF i > Len(stmts) THEN [r |-> Ok(Nil), s |-> s]
    ELSE LET e == self_execute(stmts[i], s)
         IN IF e.r.k # "Ok" THEN [r |-> e.r, s |-> [e.s EXCEPT !.globals = previous]]
            ELSE NextStatement(stmts, i + 1, previous, e.s)

\* the loop of the Stmt::While arm
WhileLoop(condition, body, s) ==
    LET c == self_evaluate(condition, s) IN
    IF c.r.k # "Ok" THEN c ELSE
    LET t == Log(c.s, [ev |-> "while", value |-> c.r.value, enter |-> is_true(c.r.value)]) IN
    IF ~is_true(c.r.value) THEN [r |-> Ok(Nil), s |-> t] ELSE
    IF t.fuel = 0 THEN [r |-> Diverge, s |-> t] ELSE
    LET b == self_execute(body, [t EXCEPT !.fuel = @ - 1]) IN
    IF b.r.k # "Ok" THEN b ELSE NextIteration(condition, body, b.s)

\* Stmt::If arm of execute, once the condition is a value
IfBranch(stmt, value, s) ==
    IF value.t # "Boolean" THEN [r |-> Panic, s |-> s]
    ELSE IF value.b THEN self_execute(stmt.then_branch, s)
    ELSE IF stmt.else_branch # None THEN self_execute(stmt.else_branch, s)
    ELSE [r |-> Ok(Nil), s |-> s]

\* Interpreter::execute, its entry noted in the history
execute(stmt, s0) ==
    LET s == Log(s0, [ev |-> "stmt", kind |-> stmt.k]) IN
    CASE stmt.k = "Print" ->
        LET v == self_evaluate(stmt.expression, s) IN
        IF v.r.k # "Ok" THEN v
        ELSE [r |-> Ok(Nil), s |-> [v.s EXCEPT !.out = Append(@, v.r.value)]]
      [] stmt.k = "Expression" -> self_evaluate(stmt.expression, s)
      [] stmt.k = "Var" ->
        LET v == IF stmt.initializer = None THEN [r |-> Ok(Nil), s |-> s]
                 ELSE self_evaluate(stmt.initializer, s) IN
        IF v.r.k # "Ok" THEN v
        ELSE [r |-> Ok(Nil),
              s |-> Log([v.s EXCEPT !.globals = define(@, stmt.name.lexeme, v.r.value)],
                        [ev |-> "define", name |-> stmt.name.lexeme, value |-> v.r.value])]
      [] stmt.k = "Block" ->
        LET b == self_execute_block(stmt.statements, new_enclosing(s.globals), s) IN
        IF b.r.k \in Lost THEN b ELSE
        [r |-> b.r,
         s |-> Log(b.s, [ev |-> "block", start |-> Len(s.log), statements |-> stmt.statements,
                         entry |-> s.globals, exit |-> b.s.globals, result |-> b.r])]
      [] stmt.k = "If" ->
        LET c == self_evaluate(stmt.condition, s) IN
        IF c.r.k # "Ok" THEN c ELSE
        LET b == IfBranch(stmt, c.r.value, c.s) IN
        IF b.r.k # "Ok" THEN b ELSE [r |-> Ok(Nil), s |-> b.s]
      [] stmt.k = "While" -> NextIteration(stmt.condition, stmt.body, s)
      [] stmt.k = "Function" ->
        LET function == LoxFunction(stmt.name, stmt.params, stmt.body) IN
        [r |-> Ok(Nil),
         s |-> Log([s EXCEPT !.globals = define(@, stmt.name.lexeme, function)],
                   [ev |-> "define", name |-> stmt.name.lexeme, value |-> function])]
      [] stmt.k = "Return" ->
        LET v == IF stmt.value = None THEN [r |-> Ok(Nil), s |-> s]
                 ELSE self_evaluate(stmt.value, s) IN
        IF v.r.k # "Ok" THEN v
        ELSE [r |-> ReturnValue(v.r.value),
              s |-> Log(v.s, [ev |-> "return", value |-> v.r.value])]
      [] OTHER -> [r |-> Panic, s |-> s]

Invoke(t) ==
    CASE t.f = "evaluate" -> evaluate(t.expr, t.s)
      [] t.f = "execute" -> execute(t.stmt, t.s)
      [] t.f = "execute_block" -> execute_block(t.stmts, t.environment, t.s)
      [] t.f = "call" -> call(t.func, t.s, t.arguments)
      [] t.f = "arguments" -> EvaluateArguments(t.arguments, t.i, t.parameters, t.s)
      [] t.f = "statements" -> ExecuteStatements(t.stmts, t.i, t.previous, t.s)
      [] OTHER -> WhileLoop(t.condition, t.body, t.s)

(***************************************************************************)
(* parser.rs: Parser.  The methods take the Parser p and give back an      *)
(* outcome [ok, node, p]: ok with the node the method returns, or not ok   *)
(* with the ParseError in err, and the Parser as the method left it.       *)
(* p.tokens and p.current are the fields of the struct (current counts     *)
(* from 0 as in the source, sequences count from 1).  The rest of p is     *)
(* what the parser did to the world: p.reports is what Lox::report has     *)
(* written, p.had_error is LOX.had_error, p.fault is "panic" once a slice   *)
(* index or an unwrap has panicked and "hang" once a loop has come to a    *)
(* turn that changes nothing, and p.plog is a history, written and never   *)
(* read by the parser:                                                     *)
(*   "error"  a ParseError was created with the cursor at `at`; reported   *)
(*            says whether it went through LoxResult::error                *)
(*   "sync"   synchronize moved the cursor from `from` to `to`             *)
(*   "turn"   one turn of the loop `loop` moved the cursor from `from` to  *)
(*            `to`                                                          *)
(*   "none"   declaration gave back None; start is the length of the       *)
(*            history when that declaration began                          *)
(***************************************************************************)
Token_new(token_type, lexeme, literal, line) ==
    [token_type |-> token_type, lexeme |-> lexeme, literal |-> literal, line |-> line]

Parser_new(tokens) ==
    [tokens |-> tokens, current |-> 0, reports |-> <<>>, had_error |-> FALSE,
     fault |-> "none", plog |-> <<>>]

ParseError(token, message) == [k |-> "ParseError", token |-> token, message |-> message]

Good(node, p) == [ok |-> TRUE, node |-> node, p |-> p]

PLog(p, event) == [p EXCEPT !.plog = Append(@, event)]

\* Lox::error_with_token and Lox::report
error_with_token(p, token, message) ==
    [p EXCEPT !.reports = Append(@, [line |-> token.line,
                                     location |-> IF token.token_type = "EOF" THEN " at end"
                                                  ELSE " at ' " \o token.lexeme \o " '",
                                     message |-> message]),
              !.had_error = TRUE]

\* Err(LoxResult::ParseError { .. }.error())
error(p, token, message) ==
    [ok |-> FALSE, err |-> ParseError(token, message),
     p |-> PLog(error_with_token(p, token, message),
                [ev |-> "error", at |-> p.current, reported |-> TRUE])]

\* Err(LoxResult::ParseError { .. })
Err(p, token, message) ==
    [ok |-> FALSE, err |-> ParseError(token, message),
     p |-> PLog(p, [ev |-> "error", at |-> p.current, reported |-> FALSE])]

peek(p) == p.tokens[p.current + 1]

\* tokens[current - 1]; current is a usize, and at 0 the subtraction panics:
\* no token comes back then
NoToken == [token_type |-> "", lexeme |-> "", literal |-> None, line |-> 0]

previous(p) == IF p.current = 0 THEN NoToken ELSE p.tokens[p.current]

is_at_end(p) == peek(p).token_type = "EOF"

check(p, token_type) == IF is_at_end(p) THEN FALSE ELSE peek(p).token_type = token_type

\* the Parser after advance; the token advance returns is previous of it
advance(p) ==
    LET q == IF is_at_end(p) THEN p ELSE [p EXCEPT !.current = @ + 1] IN
    IF q.current = 0 THEN [q EXCEPT !.fault = "panic"] ELSE q

match_token(p, types) ==
    IF \E token_type \in types : check(p, token_type)
    THEN [matched |-> TRUE, p |-> advance(p)]
    ELSE [matched |-> FALSE, p |-> p]

consume(p, token_type, message) ==
    IF check(p, token_type) THEN Good(peek(p), advance(p))
    ELSE error(p, peek(p), message)

\* the most arguments a call and parameters a function may have
MaxArguments == 255

(***************************************************************************)
(* The methods of the grammar call one another recursively.  Parse is such *)
(* a call, as Invoke is for the evaluator.                                 *)
(***************************************************************************)
RECURSIVE Parse(_)

self_expression(p) == Parse([f |-> "expression", p |-> p])

self_assignment(p) == Parse([f |-> "assignment", p |-> p])

self_unary(p) == Parse([f |-> "unary", p |-> p])

self_statement(p) == Parse([f |-> "statement", p |-> p])

self_declaration(p) == Parse([f |-> "declaration", p |-> p])

\* self.and(), self.equality(), .. : the operand of a binary operator
self_operand(rule, p) == Parse([f |-> rule, p |-> p])

\* the next turn of `while self.match_token(..)` in or, and, .. , factor
NextOperator(rule, e) == Parse([f |-> "operators", rule |-> rule, e |-> e])

\* the next turn of `loop` in call
NextCall(e) == Parse([f |-> "calls", e |-> e])

\* the next turn of `while self.match_token(&[COMMA])` in finish_call
NextArgumentOf(callee, arguments, e) ==
    Parse([f |-> "arguments", callee |-> callee, arguments |-> arguments, e |-> e])

\* the next turn of `loop` in function
NextParameter(name, params, p, kind) ==
    Parse([f |-> "params", name |-> name, params |-> params, p |-> p, kind |-> kind])

\* the next turn of `while !self.check(&RIGHT_BRACE) && !self.is_at_end()` in block
NextDeclaration(stmts, p) == Parse([f |-> "declarations", stmts |-> stmts, p |-> p])

primary(p) ==
    LET t == peek(p) IN
    CASE t.token_type = "FALSE" -> Good(Literal(LitBool(FALSE)), advance(p))
      [] t.token_type = "TRUE" -> Good(Literal(LitBool(TRUE)), advance(p))
      [] t.token_type = "NIL" -> Good(Literal(LitNil), advance(p))
      [] t.token_type \in {"NUMBER", "STRING"} ->
        \* self.previous().literal.clone().unwrap()
        IF t.literal = None THEN Good(None, [advance(p) EXCEPT !.fault = "panic"])
        ELSE Good(Literal(t.literal), advance(p))
      [] t.token_type = "IDENTIFIER" -> Good(Variable(t), advance(p))
      [] t.token_type = "LEFT_PAREN" ->
        LET expr == self_expression(advance(p)) IN
        IF ~expr.ok THEN expr
        ELSE LET c == consume(expr.p, "RIGHT_PAREN", "Expect ')' after expression.") IN
             IF c.ok THEN Good(Grouping(expr.node), c.p) ELSE c
      [] OTHER -> error(p, t, "Expect expression")

\* finish_call from `let paren = self.consume(..)` on
ClosingParen(callee, arguments, p) ==
    LET paren == consume(p, "RIGHT_PAREN", "Expect ')' after arguments.") IN
    IF paren.ok THEN Good(Call(callee, paren.node, arguments), paren.p) ELSE paren

\* finish_call's loop: e is the outcome of the self.expression() before it
ArgumentLoop(callee, arguments, e) ==
    IF ~e.ok THEN e
    ELSE LET pushed == Append(arguments, e.node)
             m == match_token(e.p, {"COMMA"}) IN
         IF ~m.matched THEN ClosingParen(callee, pushed, e.p)
         ELSE IF Len(pushed) >= MaxArguments
         THEN error(m.p, peek(m.p), "Can't have more than 255 parameters.")
         ELSE NextArgumentOf(callee, pushed, self_expression(m.p))

finish_call(p, callee) ==
    IF check(p, "RIGHT_PAREN") THEN ClosingParen(callee, <<>>, p)
    ELSE ArgumentLoop(callee, <<>>, self_expression(p))

\* call's loop: e is the outcome of self.primary() or of self.finish_call(expr)
CallLoop(e) ==
    IF ~e.ok THEN e
    ELSE LET m == match_token(e.p, {"LEFT_PAREN"}) IN
         IF m.matched THEN NextCall(finish_call(m.p, e.node)) ELSE e

Parser_call(p) == CallLoop(primary(p))

unary(p) ==
    LET m == match_token(p, {"BANG", "MINUS"}) IN
    IF m.matched
    THEN LET right == self_unary(m.p) IN
         IF right.ok THEN Good(Unary(previous(m.p), right.node), right.p) ELSE right
    ELSE Parser_call(p)

\* the operators each binary rule of the grammar matches, and its operand
Operators(rule) ==
    CASE rule = "or" -> {"OR"}
      [] rule = "and" -> {"AND"}
      [] rule = "equality" -> {"BANG_EQUAL", "EQUAL_EQUAL"}
      [] rule = "comparison" -> {"GREATER", "GREATER_EQUAL", "LESS", "LESS_EQUAL"}
      [] rule = "term" -> {"MINUS", "PLUS"}
      [] rule = "factor" -> {"SLASH", "STAR"}

\* a grammar whose term takes a term as its right operand
OperandOf_term_on_the_right(rule) ==
    CASE rule = "or" -> "and"
      [] rule = "and" -> "equality"
      [] rule = "equality" -> "comparison"
      [] rule = "comparison" -> "term"
      [] rule = "term" -> "term"
      [] rule = "factor" -> "unary"

OperandOf(rule) ==
    CASE rule = "or" -> "and"
      [] rule = "and" -> "equality"
      [] rule = "equality" -> "comparison"
      [] rule = "comparison" -> "term"
      [] rule = "term" -> "factor"
      [] rule = "factor" -> "unary"

\* the loop of or, and, equality, comparison, term and factor: e is the outcome
\* of the operand parsed before it
OperatorLoop(rule, e) ==
    IF ~e.ok THEN e
    ELSE LET m == match_token(e.p, Operators(rule)) IN
         IF ~m.matched THEN e
         ELSE LET operator == previous(m.p)
                  right == self_operand(OperandOf(rule), m.p) IN
              IF ~right.ok THEN right
              ELSE NextOperator(rule,
                       Good(IF rule \in {"or", "and"}
                            THEN Logical(e.node, operator, right.node)
                            ELSE Binary(e.node, operator, right.node), right.p))

factor(p) == OperatorLoop("factor", unary(p))

term(p) == OperatorLoop("term", factor(p))

comparison(p) == OperatorLoop("comparison", term(p))

equality(p) == OperatorLoop("equality", comparison(p))

and(p) == OperatorLoop("and", equality(p))

or(p) == OperatorLoop("or", and(p))

\* assignment after `let value = self.assignment()?`.  The Err of a target
\* that is not a variable does not go through LoxResult::error.
AssignmentOf(expr, equals, value) ==
    IF ~value.ok THEN value
    ELSE IF expr.node.k = "Variable"
    THEN Good(Assign(expr.node.name, value.node), value.p)
    ELSE Err(value.p, equals, "Invaild assignment target.")

\* assignment after `let expr = self.or()?`
AssignmentTo(expr) ==
    IF ~expr.ok THEN expr
    ELSE LET m == match_token(expr.p, {"EQUAL"}) IN
         IF ~m.matched THEN expr
         ELSE AssignmentOf(expr, previous(m.p), self_assignment(m.p))

assignment(p) == AssignmentTo(or(p))

expression(p) == assignment(p)

expression_statement(p) ==
    LET expr == self_expression(p) IN
    IF ~expr.ok THEN expr
    ELSE LET c == consume(expr.p, "SEMICOLON", "Expect ';' after value") IN
         IF c.ok THEN Good(Expression(expr.node), c.p) ELSE c

print_statement(p) ==
    LET expr == self_expression(p) IN
    IF ~expr.ok THEN expr
    ELSE LET c == consume(expr.p, "SEMICOLON", "Expect ';' after value") IN
         IF c.ok THEN Good(PrintStmt(expr.node), c.p) ELSE c

return_statement(p) ==
    LET keyword == previous(p)
        value == IF ~check(p, "SEMICOLON") THEN self_expression(p) ELSE Good(None, p) IN
    IF ~value.ok THEN value
    ELSE LET c == consume(value.p, "SEMICOLON", "Expect ';' after return value") IN
         IF c.ok THEN Good(Return(keyword, value.node), c.p) ELSE c

var_declaration(p) ==
    LET name == consume(p, "IDENTIFIER", "Expect variable name.") IN
    IF ~name.ok THEN name
    ELSE LET m == match_token(name.p, {"EQUAL"})
             initializer == IF m.matched THEN self_expression(m.p) ELSE Good(None, m.p) IN
         IF ~initializer.ok THEN initializer
         ELSE LET c == consume(initializer.p, "SEMICOLON",
                               "Expect ';' after variable declaration.") IN
              IF c.ok THEN Good(Var(name.node, initializer.node), c.p) ELSE c

\* the token types at which synchronize stops
Boundaries == {"CLASS", "FUN", "VAR", "FOR", "IF", "WHILE", "PRINT", "RETURN"}

RECURSIVE SynchronizeLoop_to_semicolon(_)
SynchronizeLoop_to_semicolon(p) ==
    IF is_at_end(p) THEN p
    ELSE IF previous(p).token_type = "SEMICOLON" THEN p
    ELSE SynchronizeLoop_to_semicolon(
             PLog(advance(p), [ev |-> "turn", loop |-> "synchronize", from |-> p.current,
                               to |-> advance(p).current]))

RECURSIVE SynchronizeLoop(_)
SynchronizeLoop(p) ==
    IF is_at_end(p) THEN p
    ELSE IF previous(p).token_type = "SEMICOLON" THEN p
    ELSE IF peek(p).token_type \in Boundaries THEN p
    ELSE SynchronizeLoop(PLog(advance(p), [ev |-> "turn", loop |-> "synchronize",
                                           from |-> p.current,
                                           to |-> advance(p).current]))

synchronize_in_place(p) ==
    LET q == SynchronizeLoop(p) IN
    PLog(q, [ev |-> "sync", from |-> p.current, to |-> q.current])

synchronize(p) ==
    LET q == SynchronizeLoop(advance(p)) IN
    PLog(q, [ev |-> "sync", from |-> p.current, to |-> q.current])

\* block's loop.  A turn that leaves the Parser as it was would repeat for
\* ever: the loop is cut there, with the fault "hang".
BlockLoop(stmts, p) ==
    IF ~check(p, "RIGHT_BRACE") /\ ~is_at_end(p)
    THEN LET d == self_declaration(p)
             q == PLog(d.p, [ev |-> "turn", loop |-> "block", from |-> p.current,
                             to |-> d.p.current]) IN
         IF d.p.current = p.current
         THEN [ok |-> FALSE, p |-> [q EXCEPT !.fault = "hang"]]
         ELSE NextDeclaration(IF d.ok THEN Append(stmts, d.node) ELSE stmts, q)
    ELSE LET c == consume(p, "RIGHT_BRACE", "Expect '}' after a block") IN
         IF c.ok THEN Good(stmts, c.p) ELSE c

block(p) == BlockLoop(<<>>, p)

while_statement(p) ==
    LET l == consume(p, "LEFT_PAREN", "Expect '(' after 'while'.") IN
    IF ~l.ok THEN l
    ELSE LET condition == self_expression(l.p) IN
         IF ~condition.ok THEN condition
         ELSE LET r == consume(condition.p, "RIGHT_PAREN", "Expect ')' after condition.") IN
              IF ~r.ok THEN r
              ELSE LET body == self_statement(r.p) IN
                   IF body.ok THEN Good(While(condition.node, body.node), body.p)
                   ELSE body

if_statement(p) ==
    LET l == consume(p, "LEFT_PAREN", "Expect '(' after 'if'.") IN
    IF ~l.ok THEN l
    ELSE LET condition == self_expression(l.p) IN
         IF ~condition.ok THEN condition
         ELSE LET r == consume(condition.p, "RIGHT_PAREN",
                               "Expect ')' after if condition.") IN
              IF ~r.ok THEN r
              ELSE LET then_branch == self_statement(r.p) IN
                   IF ~then_branch.ok THEN then_branch
                   ELSE LET m == match_token(then_branch.p, {"ELSE"})
                            else_branch == IF m.matched THEN self_statement(m.p)
                                           ELSE Good(None, m.p) IN
                        IF ~else_branch.ok THEN else_branch
                        ELSE Good(If(condition.node, then_branch.node, else_branch.node),
                                  else_branch.p)

\* a desugaring that puts the increment before the body
ForBody_increment_first(initializer, condition, increment, p) ==
    LET body == self_statement(p) IN
    IF ~body.ok THEN body
    ELSE LET stepped == IF increment # None
                        THEN Block(<<Expression(increment), body.node>>)
                        ELSE body.node
             loop == While(IF condition # None THEN condition
                           ELSE Literal(LitBool(TRUE)), stepped) IN
         Good(IF initializer # None THEN Block(<<initializer, loop>>) ELSE loop, body.p)

\* for_statement from `let mut body = self.statement()?` on
ForBody(initializer, condition, increment, p) ==
    LET body == self_statement(p) IN
    IF ~body.ok THEN body
    ELSE LET stepped == IF increment # None
                        THEN Block(<<body.node, Expression(increment)>>)
                        ELSE body.node
             loop == While(IF condition # None THEN condition
                           ELSE Literal(LitBool(TRUE)), stepped) IN
         Good(IF initializer # None THEN Block(<<initializer, loop>>) ELSE loop, body.p)

for_statement(p) ==
    LET l == consume(p, "LEFT_PAREN", "Expect '(' after 'for'.") IN
    IF ~l.ok THEN l
    ELSE LET s == match_token(l.p, {"SEMICOLON"})
             v == match_token(l.p, {"VAR"})
             initializer == IF s.matched THEN Good(None, s.p)
                            ELSE IF v.matched THEN var_declaration(v.p)
                            ELSE expression_statement(l.p) IN
         IF ~initializer.ok THEN initializer
         ELSE LET condition == IF ~check(initializer.p, "SEMICOLON")
                               THEN self_expression(initializer.p)
                               ELSE Good(None, initializer.p) IN
              IF ~condition.ok THEN condition
              ELSE LET c == consume(condition.p, "SEMICOLON",
                                    "Expect ';' after loop condition.") IN
                   IF ~c.ok THEN c
                   ELSE LET increment == IF ~check(c.p, "RIGHT_PAREN") THEN self_expression(c.p)
                                         ELSE Good(None, c.p) IN
                        IF ~increment.ok THEN increment
                        ELSE LET r == consume(increment.p, "RIGHT_PAREN",
                                              "Expect ')' after for clause.") IN
                             IF ~r.ok THEN r
                             ELSE ForBody(initializer.node, condition.node,
                                          increment.node, r.p)

statement(p) ==
    LET t == IF is_at_end(p) THEN "EOF" ELSE peek(p).token_type IN
    CASE t = "FOR" -> for_statement(advance(p))
      [] t = "IF" -> if_statement(advance(p))
      [] t = "PRINT" -> print_statement(advance(p))
      [] t = "RETURN" -> return_statement(advance(p))
      [] t = "WHILE" -> while_statement(advance(p))
      [] t = "LEFT_BRACE" ->
        LET b == block(advance(p)) IN
        IF b.ok THEN Good(Block(b.node), b.p) ELSE b
      [] OTHER -> expression_statement(p)

\* function from `self.consume(RIGHT_PAREN, ..)` on
FunctionBody(name, params, p, kind) ==
    LET r == consume(p, "RIGHT_PAREN", "Expect ')' after parameters.") IN
    IF ~r.ok THEN r
    ELSE LET l == consume(r.p, "LEFT_BRACE", "Expect '{' before " \o kind \o " body") IN
         IF ~l.ok THEN l
         ELSE LET body == block(l.p) IN
              IF body.ok THEN Good(Function(name, params, body.node), body.p) ELSE body

\* function's loop
ParameterLoop(name, params, p, kind) ==
    IF Len(params) >= MaxArguments
    THEN error(p, peek(p), "Can't have more than 255 parameters.")
    ELSE LET param == consume(p, "IDENTIFIER", "Expect parameter name.") IN
         IF ~param.ok THEN param
         ELSE LET m == match_token(param.p, {"COMMA"}) IN
              IF m.matched THEN NextParameter(name, Append(params, param.node), m.p, kind)
              ELSE FunctionBody(name, Append(params, param.node), m.p, kind)

function(p, kind) ==
    LET name == consume(p, "IDENTIFIER", "Expect '(' after " \o kind \o " name.") IN
    IF ~name.ok THEN name
    ELSE LET l == consume(name.p, "LEFT_PAREN", "Expect '(' after " \o kind \o " name.") IN
         IF ~l.ok THEN l
         ELSE IF ~check(l.p, "RIGHT_PAREN") THEN ParameterLoop(name.node, <<>>, l.p, kind)
         ELSE FunctionBody(name.node, <<>>, l.p, kind)

\* declaration's parse_with_recovery: r is the outcome of parse_fn, and start
\* the length of the history when declaration began.  ok is Some, not ok None.
parse_with_recovery(start, r) ==
    IF r.ok THEN r
    ELSE [ok |-> FALSE, p |-> PLog(synchronize(r.p), [ev |-> "none", start |-> start])]

declaration(p) ==
    LET f == match_token(p, {"FUN"})
        v == match_token(p, {"VAR"}) IN
    IF f.matched THEN parse_with_recovery(Len(p.plog), function(f.p, "function"))
    ELSE IF v.matched THEN parse_with_recovery(Len(p.plog), var_declaration(v.p))
    ELSE parse_with_recovery(Len(p.plog), self_statement(p))

Parse(t) ==
    CASE t.f = "expression" -> expression(t.p)
      [] t.f = "assignment" -> assignment(t.p)
      [] t.f = "and" -> and(t.p)
      [] t.f = "equality" -> equality(t.p)
      [] t.f = "comparison" -> comparison(t.p)
      [] t.f = "term" -> term(t.p)
      [] t.f = "factor" -> factor(t.p)
      [] t.f = "unary" -> unary(t.p)
      [] t.f = "statement" -> statement(t.p)
      [] t.f = "declaration" -> declaration(t.p)
      [] t.f = "operators" -> OperatorLoop(t.rule, t.e)
      [] t.f = "calls" -> CallLoop(t.e)
      [] t.f = "arguments" -> ArgumentLoop(t.callee, t.arguments, t.e)
      [] t.f = "params" -> ParameterLoop(t.name, t.params, t.p, t.kind)
      [] OTHER -> BlockLoop(t.stmts, t.p)

(***************************************************************************)
(* The statement lists the host hands to interpret.  Each is the syntax    *)
(* tree the parser builds for the source text quoted above it.             *)
(***************************************************************************)
Id(lexeme) == Token("IDENTIFIER", lexeme, 1)
Op(type, lexeme) == Token(type, lexeme, 1)
Num(n) == Literal(LitNumber(n))
Str(x) == Literal(LitString(x))
True == Literal(LitBool(TRUE))
False == Literal(LitBool(FALSE))
NilLit == Literal(LitNil)
V(lexeme) == Variable(Id(lexeme))
Set(lexeme, e) == Assign(Id(lexeme), e)
CallOf(lexeme, arguments) == Call(V(lexeme), Op("RIGHT_PAREN", ")"), arguments)
Ret(e) == Return(Op("RETURN", "return"), e)
OrOp == Op("OR", "or")
AndOp == Op("AND", "and")

\* print 1; print x; print 2;
ProgErrThenPrint == <<PrintStmt(Num(1)), PrintStmt(V("x")), PrintStmt(Num(2))>>

\* var a = 0; a = b; a = 1; print a;
ProgErrThenAssign ==
    <<Var(Id("a"), Num(0)), Expression(Set("a", V("b"))), Expression(Set("a", Num(1))),
      PrintStmt(V("a"))>>

\* var a = 1; { var a = 2; var c = 3; print a; } print a; print c;
ProgShadow ==
    <<Var(Id("a"), Num(1)),
      Block(<<Var(Id("a"), Num(2)), Var(Id("c"), Num(3)), PrintStmt(V("a"))>>),
      PrintStmt(V("a")), PrintStmt(V("c"))>>

\* var a = 0; { { a = 1; } print a; } print a;
ProgAssignOuter ==
    <<Var(Id("a"), Num(0)),
      Block(<<Block(<<Expression(Set("a", Num(1)))>>), PrintStmt(V("a"))>>),
      PrintStmt(V("a"))>>

\* var a = 0; { a = 1; print zz; } print a;
ProgAssignThenErr ==
    <<Var(Id("a"), Num(0)),
      Block(<<Expression(Set("a", Num(1))), PrintStmt(V("zz"))>>),
      PrintStmt(V("a"))>>

\* fun f() {} { var b = 0; { f(); b = 1; } print b; }
ProgCallInBlock ==
    <<Function(Id("f"), <<>>, <<>>),
      Block(<<Var(Id("b"), Num(0)),
              Block(<<Expression(CallOf("f", <<>>)), Expression(Set("b", Num(1)))>>),
              PrintStmt(V("b"))>>)>>

\* fun f() {} { f(); var x = 1; } print x;
ProgCallThenVar ==
    <<Function(Id("f"), <<>>, <<>>),
      Block(<<Expression(CallOf("f", <<>>)), Var(Id("x"), Num(1))>>),
      PrintStmt(V("x"))>>

\* fun g(p) { var loc = p; } g(1); print p; print loc;
ProgCallLeak ==
    <<Function(Id("g"), <<Id("p")>>, <<Var(Id("loc"), V("p"))>>),
      Expression(CallOf("g", <<Num(1)>>)), PrintStmt(V("p")), PrintStmt(V("loc"))>>

\* fun k(p) { var loc = p; return loc; } print k(1); print p;
ProgCallReturn ==
    <<Function(Id("k"), <<Id("p")>>, <<Var(Id("loc"), V("p")), Ret(V("loc"))>>),
      PrintStmt(CallOf("k", <<Num(1)>>)), PrintStmt(V("p"))>>

\* fun h(a) { { { return a; } } print 9; } print h(5);
ProgReturnNested ==
    <<Function(Id("h"), <<Id("a")>>,
               <<Block(<<Block(<<Ret(V("a"))>>)>>), PrintStmt(Num(9))>>),
      PrintStmt(CallOf("h", <<Num(5)>>))>>

\* fun w() { while (true) { return 3; } print 9; } print w();
ProgReturnLoop ==
    <<Function(Id("w"), <<>>,
               <<While(True, Block(<<Ret(Num(3))>>)), PrintStmt(Num(9))>>),
      PrintStmt(CallOf("w", <<>>))>>

\* fun n() { print 1; } print n();
ProgNoReturn ==
    <<Function(Id("n"), <<>>, <<PrintStmt(Num(1))>>), PrintStmt(CallOf("n", <<>>))>>

\* fun e() { { print yy; } print 9; } fun o() { e(); print 8; } print o();
ProgErrInBody ==
    <<Function(Id("e"), <<>>, <<Block(<<PrintStmt(V("yy"))>>), PrintStmt(Num(9))>>),
      Function(Id("o"), <<>>, <<Expression(CallOf("e", <<>>)), PrintStmt(Num(8))>>),
      PrintStmt(CallOf("o", <<>>))>>

\* fun r(n) { if (n == 0) { return 0; } return r(n - 1) + 1; } print r(2);
ProgRecursion ==
    <<Function(Id("r"), <<Id("n")>>,
               <<If(Binary(V("n"), Op("EQUAL_EQUAL", "=="), Num(0)),
                    Block(<<Ret(Num(0))>>), None),
                 Ret(Binary(CallOf("r", <<Binary(V("n"), Op("MINUS", "-"), Num(1))>>),
                            Op("PLUS", "+"), Num(1)))>>),
      PrintStmt(CallOf("r", <<Num(2)>>))>>

\* return 1;
ProgTopReturn == <<Ret(Num(1))>>

\* { { return 1; } print 9; } print 2;
ProgBlockReturn ==
    <<Block(<<Block(<<Ret(Num(1))>>), PrintStmt(Num(9))>>), PrintStmt(Num(2))>>

\* the call  callee(arguments)  whose closing parenthesis is on the given line
CallAt(lexeme, arguments, line) ==
    Call(V(lexeme), Token("RIGHT_PAREN", ")", line), arguments)

\* fun m(p, q) { print p; var loc = q; }
DeclM ==
    Function(Id("m"), <<Id("p"), Id("q")>>, <<PrintStmt(V("p")), Var(Id("loc"), V("q"))>>)

\* the argument lists m is called with
ArgsOfM == {<<>>, <<Num(1)>>, <<Num(1), Num(2)>>, <<Num(1), Num(2), Num(3)>>}

\* fun m(p, q) { print p; var loc = q; }
\* { var v = 0; m(<arguments>
\* ); print v; }
\* print m(<arguments>
\*
\* );
ProgArity(arguments) ==
    <<DeclM,
      Block(<<Var(Id("v"), Num(0)), Expression(CallAt("m", arguments, 3)),
              PrintStmt(V("v"))>>),
      PrintStmt(CallAt("m", arguments, 6))>>

\* fun f(a) { if (a) { return 1; } return 2; }
DeclF ==
    Function(Id("f"), <<Id("a")>>,
             <<If(V("a"), Block(<<Ret(Num(1))>>), None), Ret(Num(2))>>)

\* the arguments f is called with
ArgsOfF == {True, False, NilLit, Num(0), Num(7), Str("s"), Str(""), V("f")}

\* fun f(a) { if (a) { return 1; } return 2; } print f(x);
ProgF(x) == <<DeclF, PrintStmt(CallOf("f", <<x>>))>>

\* the left operands of the logical expressions
LeftOperands == {True, False, NilLit, Num(0), Str("s")}

\* var a = 0; print left <operator> (a = 5); print a;
ProgLogical(operator, left) ==
    <<Var(Id("a"), Num(0)), PrintStmt(Logical(left, operator, Grouping(Set("a", Num(5))))),
      PrintStmt(V("a"))>>

\* var a = 0; fun f() { a = 1; } f(); print a;
\* var a = 0; fun f() { a = 1; return 2; } f(); print a;
ProgSetInCall(returns) ==
    <<Var(Id("a"), Num(0)),
      Function(Id("f"), <<>>,
               <<Expression(Set("a", Num(1)))>> \o (IF returns THEN <<Ret(Num(2))>> ELSE <<>>)),
      Expression(CallOf("f", <<>>)),
      PrintStmt(V("a"))>>

\* the values a loop condition starts with
LoopConditions == {True, False, NilLit, Num(0), Num(1), Str("s")}

\* var c = <start>; while (c) { print c; c = nil; } print 0;
ProgWhile(start) ==
    <<Var(Id("c"), start),
      While(V("c"), Block(<<PrintStmt(V("c")), Expression(Set("c", NilLit))>>)),
      PrintStmt(Num(0))>>

\* var i = 0; while (i < 2) { print i; i = i + 1; }
ProgCount ==
    <<Var(Id("i"), Num(0)),
      While(Binary(V("i"), Op("LESS", "<"), Num(2)),
            Block(<<PrintStmt(V("i")),
                    Expression(Set("i", Binary(V("i"), Op("PLUS", "+"), Num(1))))>>))>>

\* while (true) {}
ProgForever == <<While(True, Block(<<>>))>>

Programs ==
    {ProgErrThenPrint, ProgErrThenAssign, ProgShadow, ProgAssignOuter, ProgAssignThenErr,
     ProgCallInBlock, ProgCallThenVar, ProgCallLeak, ProgCallReturn, ProgReturnNested,
     ProgReturnLoop, ProgNoReturn, ProgErrInBody, ProgRecursion, ProgTopReturn,
     ProgBlockReturn, ProgCount, ProgForever}
    \cup {ProgArity(a) : a \in ArgsOfM}
    \cup {ProgF(x) : x \in ArgsOfF}
    \cup {ProgLogical(o, l) : o \in {OrOp, AndOp}, l \in LeftOperands}
    \cup {ProgWhile(c) : c \in LoopConditions}
    \cup {ProgSetInCall(returns) : returns \in BOOLEAN}

(***************************************************************************)
(* main.rs: the host.  LOX holds the interpreter and the error flags; run  *)
(* hands a parsed statement list to interpret, which executes it one       *)
(* statement at a time.                                                    *)
(***************************************************************************)
VARIABLES
    mode,               \* "file" (run_file) or "prompt" (run_prompt)
    status,             \* "idle", "parsing", "running", "aborted", "diverged" or "exited"
    globals,            \* LOX.interpreter.globals
    had_runtime_error,  \* LOX.had_runtime_error
    out,                \* the values println! has written, in order
    errs,               \* the errors runtime_error has written to stderr
    statements,         \* the argument of the interpret call under way
    pc,                 \* the index in statements of the next one to execute
    log,                \* the history of the statement executed last
    runs,               \* how many statement lists run has started
    exit_code,          \* the code of std::process::exit; -1 while running
    parser,             \* the Parser of the run call under way, and what it reported
    had_error,          \* LOX.had_error
    operand,            \* value.rs on its own: a Value
    applied,            \* the results of applying ! to operand, once and again
    outcome,            \* the operator applied to operand last, and what came of it
    scope,              \* environment.rs on its own: an Environment
    last                \* the operation scope went through last, and its result

hostVars == <<mode, status, globals, had_runtime_error, out, errs, statements, pc, log,
              runs, exit_code>>
parserVars == <<parser, had_error>>
valueVars == <<operand, applied, outcome>>
environmentVars == <<scope, last>>

vars == <<hostVars, parserVars, valueVars, environmentVars>>

\* no source text is being parsed
NoParser == parser = <<>> /\ had_error = FALSE

\* the parts of the program that a specification leaves aside stay as they are
NoValue == operand = Nil /\ applied = <<>> /\ outcome = [op |-> "none"]
NoEnvironment == scope = Environment_new /\ last = [op |-> "none"]

\* Lox::new, Interpreter::new, and main's choice between run_file and run_prompt
Init ==
    /\ mode \in {"file", "prompt"}
    /\ status = "idle"
    /\ globals = Environment_new
    /\ had_runtime_error = FALSE
    /\ out = <<>>
    /\ errs = <<>>
    /\ statements = <<>>
    /\ pc = 1
    /\ log = <<>>
    /\ runs = 0
    /\ exit_code = -1
    /\ NoParser /\ NoValue /\ NoEnvironment

\* Lox::run: the statement list of one file or one prompt line reaches interpret
Run(p) ==
    /\ status = "idle"
    /\ runs < (IF mode = "file" THEN 1 ELSE MaxRuns)
    /\ statements' = p
    /\ pc' = 1
    /\ status' = "running"
    /\ runs' = runs + 1
    /\ UNCHANGED <<mode, globals, had_runtime_error, out, errs, log, exit_code>>
    /\ UNCHANGED <<parserVars, valueVars, environmentVars>>

\* one turn of the for_each closure of Interpreter::interpret, with
\* Lox::runtime_error for an Err
Interpret ==
    /\ status = "running"
    /\ pc <= Len(statements)
    /\ LET e == self_execute(statements[pc],
                        [globals |-> globals, out |-> out, log |-> <<>>, fuel |-> MaxFuel])
       IN /\ globals' = e.s.globals
          /\ out' = e.s.out
          /\ log' = e.s.log
          /\ errs' = IF e.r.k = "RuntimeError" THEN Append(errs, e.r) ELSE errs
          /\ had_runtime_error' = (had_runtime_error \/ e.r.k = "RuntimeError")
          /\ status' = IF e.r.k \in {"Panic", "ReturnValue"} THEN "aborted"
                       ELSE IF e.r.k = "Diverge" THEN "diverged"
                       ELSE "running"
          /\ pc' = IF e.r.k \in {"Ok", "RuntimeError"} THEN pc + 1 ELSE pc
    /\ UNCHANGED <<mode, statements, runs, exit_code>>
    /\ UNCHANGED <<parserVars, valueVars, environmentVars>>

\* interpret has gone through the list: run_prompt clears the flags and reads
\* on, run_file exits
Finish ==
    /\ status = "running"
    /\ pc > Len(statements)
    /\ IF mode = "prompt"
       THEN /\ had_runtime_error' = FALSE
            /\ status' = "idle"
            /\ exit_code' = exit_code
       ELSE /\ had_runtime_error' = had_runtime_error
            /\ status' = "exited"
            /\ exit_code' = IF had_runtime_error THEN 70 ELSE 0
    /\ UNCHANGED <<mode, globals, out, errs, statements, pc, log, runs>>
    /\ UNCHANGED <<parserVars, valueVars, environmentVars>>

Next ==
    \/ \E p \in Programs : Run(p)
    \/ Interpret
    \/ Finish

Spec == Init /\ [][Next]_vars

(***************************************************************************)
(* value.rs on its own: the operators of the Expr::Unary, Expr::Binary and *)
(* Expr::Call arms applied to Values.                                      *)
(***************************************************************************)
\* numerators and denominators of the Numbers tried
MaxNum == 4

\* the interpreter before it has run anything
NoHost ==
    /\ mode = "file"
    /\ status = "idle"
    /\ globals = Environment_new
    /\ had_runtime_error = FALSE
    /\ out = <<>>
    /\ errs = <<>>
    /\ statements = <<>>
    /\ pc = 1
    /\ log = <<>>
    /\ runs = 0
    /\ exit_code = -1

Bang == Token("BANG", "!", 1)

Values ==
    {Ratio(n, d) : n \in (-MaxNum) .. MaxNum, d \in 0 .. MaxNum}
    \cup {Boolean(TRUE), Boolean(FALSE), Nil}
    \cup {String(x) : x \in {"", "a", "0", "false", "nil"}}
    \cup {LoxFunction(Token("IDENTIFIER", "f", 1), <<>>, <<>>),
          LoxFunction(Token("IDENTIFIER", "g", 1), <<Token("IDENTIFIER", "p", 1)>>,
                      <<Return(Token("RETURN", "return", 1), Literal(LitBool(FALSE)))>>)}

ValueInit ==
    /\ operand \in Values
    /\ applied = <<>>
    /\ outcome = [op |-> "none"]
    /\ NoHost /\ NoParser /\ NoEnvironment

\* !x, then !!x: the BANG arm of Expr::Unary on the value at hand
ApplyNot ==
    /\ Len(applied) < 2
    /\ applied' = Append(applied,
                         UnaryOp(Bang, IF applied = <<>> THEN operand
                                       ELSE applied[Len(applied)]).value)
    /\ UNCHANGED <<operand, outcome, hostVars, parserVars, environmentVars>>

\* the operators of the Expr::Binary arm that check the types of their operands
TypedOperators ==
    {Op("PLUS", "+"), Op("MINUS", "-"), Op("STAR", "*"), Op("SLASH", "/"),
     Op("LESS", "<"), Op("LESS_EQUAL", "<="), Op("GREATER", ">"),
     Op("GREATER_EQUAL", ">=")}

\* an interpreter whose globals hold the two operands as x and y, and a nil a
Operands(left, right) ==
    [globals |-> define(define(define(Environment_new, "x", left), "y", right), "a", Nil),
     out |-> <<>>, log |-> <<>>, fuel |-> MaxFuel]

\* (a = x) op (a = y): Expr::Binary evaluated on two operand expressions that
\* leave a trace, for each operator that checks types
ApplyBinary ==
    \E operator \in TypedOperators, right \in Values :
        /\ applied = <<>>
        /\ outcome.op = "none"
        /\ LET e == self_evaluate(Binary(Assign(Id("a"), Variable(Id("x"))), operator,
                                         Assign(Id("a"), Variable(Id("y")))),
                                  Operands(operand, right))
           IN outcome' = [op |-> "binary", operator |-> operator, left |-> operand,
                          right |-> right, r |-> e.r, log |-> e.s.log]
        /\ UNCHANGED <<operand, applied, hostVars, parserVars, environmentVars>>

\* x == y, x != y, y == x and x == x: the EQUAL_EQUAL and BANG_EQUAL arms of
\* Expr::Binary
ApplyEquality ==
    \E right \in Values :
        /\ applied = <<>>
        /\ outcome.op = "none"
        /\ outcome' =
              [op |-> "equality", left |-> operand, right |-> right,
               eq |-> self_evaluate(Binary(Variable(Id("x")), Op("EQUAL_EQUAL", "=="),
                                           Variable(Id("y"))), Operands(operand, right)).r,
               ne |-> self_evaluate(Binary(Variable(Id("x")), Op("BANG_EQUAL", "!="),
                                           Variable(Id("y"))), Operands(operand, right)).r,
               swapped |-> self_evaluate(Binary(Variable(Id("y")), Op("EQUAL_EQUAL", "=="),
                                                Variable(Id("x"))), Operands(operand, right)).r,
               self |-> self_evaluate(Binary(Variable(Id("x")), Op("EQUAL_EQUAL", "=="),
                                             Variable(Id("x"))), Operands(operand, right)).r]
        /\ UNCHANGED <<operand, applied, hostVars, parserVars, environmentVars>>

\* -x: the MINUS arm of Expr::Unary
ApplyNegate ==
    /\ applied = <<>>
    /\ outcome.op = "none"
    /\ outcome' = [op |-> "negate", left |-> operand,
                   r |-> self_evaluate(Unary(Op("MINUS", "-"), Variable(Id("x"))),
                                       Operands(operand, Nil)).r]
    /\ UNCHANGED <<operand, applied, hostVars, parserVars, environmentVars>>

\* x(): the Expr::Call arm on the value as callee, without arguments
ApplyCall ==
    /\ applied = <<>>
    /\ outcome.op = "none"
    /\ outcome' = [op |-> "call", left |-> operand,
                   r |-> self_evaluate(Call(Variable(Id("x")), Op("RIGHT_PAREN", ")"), <<>>),
                                       Operands(operand, Nil)).r]
    /\ UNCHANGED <<operand, applied, hostVars, parserVars, environmentVars>>

ValueNext ==
    \/ ApplyNot
    \/ ApplyBinary
    \/ ApplyEquality
    \/ ApplyNegate
    \/ ApplyCall

SpecValue == ValueInit /\ [][ValueNext]_vars

(***************************************************************************)
(* environment.rs on its own: an Environment that is defined in, assigned  *)
(* to, read and enclosed.  last keeps the operation, its arguments, the    *)
(* Environment before it and its result.                                   *)
(***************************************************************************)
\* frames of the longest chain
MaxDepth == 3

EnvNames == {"a", "b", "c"}
EnvValues == {Number(1), Number(2)}

EnvironmentInit ==
    /\ scope = Environment_new
    /\ last = [op |-> "none"]
    /\ NoHost /\ NoParser /\ NoValue

EnvDefine(name, value) ==
    /\ scope' = define(scope, name, value)
    /\ last' = [op |-> "define", name |-> name, value |-> value, before |-> scope]
    /\ UNCHANGED <<hostVars, parserVars, valueVars>>

EnvNewEnclosing ==
    /\ Len(scope) < MaxDepth
    /\ scope' = new_enclosing(scope)
    /\ last' = [op |-> "new_enclosing", before |-> scope]
    /\ UNCHANGED <<hostVars, parserVars, valueVars>>

EnvGet(name) ==
    /\ last' = [op |-> "get", name |-> name, before |-> scope,
                result |-> get(scope, Token("IDENTIFIER", name, 1))]
    /\ UNCHANGED <<scope, hostVars, parserVars, valueVars>>

EnvAssign(name, value) ==
    /\ LET a == assign(scope, Token("IDENTIFIER", name, 1), value)
       IN /\ scope' = a.env
          /\ last' = [op |-> "assign", name |-> name, value |-> value, before |-> scope,
                      result |-> a.r]
    /\ UNCHANGED <<hostVars, parserVars, valueVars>>

EnvironmentNext ==
    \/ \E name \in EnvNames \ {"c"}, value \in EnvValues : EnvDefine(name, value)
    \/ EnvNewEnclosing
    \/ \E name \in EnvNames : EnvGet(name)
    \/ \E name \in EnvNames, value \in EnvValues : EnvAssign(name, value)

SpecEnvironment == EnvironmentInit /\ [][EnvironmentNext]_vars

(***************************************************************************)
(* Lox::run from the token list on: Parser::new, the turns of parse's      *)
(* loop, the test of LOX.had_error, and interpret.  The scanner is left    *)
(* aside: a source is the token list scan_tokens gives for it, which ends  *)
(* with the one EOF token.  A behaviour runs one source: the Parser is     *)
(* made anew by every run, and run_prompt clears LOX.had_error after each. *)
(***************************************************************************)
\* tokens before EOF in the sources that are tried exhaustively
MaxTokens == 3

Tk(token_type, lexeme) == Token_new(token_type, lexeme, None, 1)
NumberToken(n, lexeme) == Token_new("NUMBER", lexeme, LitNumber(n), 1)
EndOfFile == Tk("EOF", "")

Alphabet ==
    {Tk("PRINT", "print"), NumberToken(1, "1"), Tk("IDENTIFIER", "a"), Tk("SEMICOLON", ";"),
     Tk("EQUAL", "="), Tk("LEFT_BRACE", "{"), Tk("RIGHT_BRACE", "}"),
     Tk("LEFT_PAREN", "("), Tk("RIGHT_PAREN", ")")}

ShortSources ==
    {Append(ts, EndOfFile) : ts \in UNION {[1 .. n -> Alphabet] : n \in 0 .. MaxTokens}}

\* print 1; print ; print 2;
SourceMalformedBetween ==
    <<Tk("PRINT", "print"), NumberToken(1, "1"), Tk("SEMICOLON", ";"),
      Tk("PRINT", "print"), Tk("SEMICOLON", ";"),
      Tk("PRINT", "print"), NumberToken(2, "2"), Tk("SEMICOLON", ";"), EndOfFile>>

\* { print 1 }
SourceBlockNoSemicolon ==
    <<Tk("LEFT_BRACE", "{"), Tk("PRINT", "print"), NumberToken(1, "1"),
      Tk("RIGHT_BRACE", "}"), EndOfFile>>

\* fun f(a, b) { return a; } print f(1, 2);
SourceFunction ==
    <<Tk("FUN", "fun"), Tk("IDENTIFIER", "f"), Tk("LEFT_PAREN", "("), Tk("IDENTIFIER", "a"),
      Tk("COMMA", ","), Tk("IDENTIFIER", "b"), Tk("RIGHT_PAREN", ")"), Tk("LEFT_BRACE", "{"),
      Tk("RETURN", "return"), Tk("IDENTIFIER", "a"), Tk("SEMICOLON", ";"),
      Tk("RIGHT_BRACE", "}"),
      Tk("PRINT", "print"), Tk("IDENTIFIER", "f"), Tk("LEFT_PAREN", "("), NumberToken(1, "1"),
      Tk("COMMA", ","), NumberToken(2, "2"), Tk("RIGHT_PAREN", ")"), Tk("SEMICOLON", ";"),
      EndOfFile>>

\* for (var i = 0; i < 2; i = i + 1) print i;
SourceFor ==
    <<Tk("FOR", "for"), Tk("LEFT_PAREN", "("), Tk("VAR", "var"), Tk("IDENTIFIER", "i"),
      Tk("EQUAL", "="), NumberToken(0, "0"), Tk("SEMICOLON", ";"),
      Tk("IDENTIFIER", "i"), Tk("LESS", "<"), NumberToken(2, "2"), Tk("SEMICOLON", ";"),
      Tk("IDENTIFIER", "i"), Tk("EQUAL", "="), Tk("IDENTIFIER", "i"), Tk("PLUS", "+"),
      NumberToken(1, "1"), Tk("RIGHT_PAREN", ")"),
      Tk("PRINT", "print"), Tk("IDENTIFIER", "i"), Tk("SEMICOLON", ";"), EndOfFile>>

\* if (!true or nil) print -1; else while (false and true) print "s" == 1 * 2;
SourceIfWhile ==
    <<Tk("IF", "if"), Tk("LEFT_PAREN", "("), Tk("BANG", "!"),
      Token_new("TRUE", "true", None, 1), Tk("OR", "or"), Token_new("NIL", "nil", None, 1),
      Tk("RIGHT_PAREN", ")"), Tk("PRINT", "print"), Tk("MINUS", "-"), NumberToken(1, "1"),
      Tk("SEMICOLON", ";"), Tk("ELSE", "else"), Tk("WHILE", "while"), Tk("LEFT_PAREN", "("),
      Token_new("FALSE", "false", None, 1), Tk("AND", "and"),
      Token_new("TRUE", "true", None, 1), Tk("RIGHT_PAREN", ")"), Tk("PRINT", "print"),
      Token_new("STRING", "\"s\"", LitString("s"), 1), Tk("EQUAL_EQUAL", "=="),
      NumberToken(1, "1"), Tk("STAR", "*"), NumberToken(2, "2"), Tk("SEMICOLON", ";"),
      EndOfFile>>

\* fun f( 1 2 print 1; } print 2; var b = ; { var = 1; print 3; } 1 = 2; print 4;
SourceManyErrors ==
    <<Tk("FUN", "fun"), Tk("IDENTIFIER", "f"), Tk("LEFT_PAREN", "("), NumberToken(1, "1"),
      NumberToken(2, "2"), Tk("PRINT", "print"), NumberToken(1, "1"), Tk("SEMICOLON", ";"),
      Tk("RIGHT_BRACE", "}"),
      Tk("PRINT", "print"), NumberToken(2, "2"), Tk("SEMICOLON", ";"),
      Tk("VAR", "var"), Tk("IDENTIFIER", "b"), Tk("EQUAL", "="), Tk("SEMICOLON", ";"),
      Tk("LEFT_BRACE", "{"), Tk("VAR", "var"), Tk("EQUAL", "="), NumberToken(1, "1"),
      Tk("SEMICOLON", ";"), Tk("PRINT", "print"), NumberToken(3, "3"), Tk("SEMICOLON", ";"),
      Tk("RIGHT_BRACE", "}"),
      NumberToken(1, "1"), Tk("EQUAL", "="), NumberToken(2, "2"), Tk("SEMICOLON", ";"),
      Tk("PRINT", "print"), NumberToken(4, "4"), Tk("SEMICOLON", ";"), EndOfFile>>

\* for (var i = 0; i < 2; i = i + 1) print i; print i;   with each of the
\* three clauses there or left out
ForSource(initializer, condition, increment) ==
    <<Tk("FOR", "for"), Tk("LEFT_PAREN", "(")>>
    \o (IF initializer
        THEN <<Tk("VAR", "var"), Tk("IDENTIFIER", "i"), Tk("EQUAL", "="), NumberToken(0, "0")>>
        ELSE <<>>)
    \o <<Tk("SEMICOLON", ";")>>
    \o (IF condition
        THEN <<Tk("IDENTIFIER", "i"), Tk("LESS", "<"), NumberToken(2, "2")>>
        ELSE <<>>)
    \o <<Tk("SEMICOLON", ";")>>
    \o (IF increment
        THEN <<Tk("IDENTIFIER", "i"), Tk("EQUAL", "="), Tk("IDENTIFIER", "i"),
               Tk("PLUS", "+"), NumberToken(1, "1")>>
        ELSE <<>>)
    \o <<Tk("RIGHT_PAREN", ")"), Tk("PRINT", "print"), Tk("IDENTIFIER", "i"),
         Tk("SEMICOLON", ";"),
         Tk("PRINT", "print"), Tk("IDENTIFIER", "i"), Tk("SEMICOLON", ";"), EndOfFile>>

ForSources ==
    {ForSource(initializer, condition, increment) :
         initializer \in BOOLEAN, condition \in BOOLEAN, increment \in BOOLEAN}

\* one operator token of each level of the grammar, two for the terms
LadderOperators ==
    {Tk("EQUAL", "="), Tk("OR", "or"), Tk("AND", "and"), Tk("EQUAL_EQUAL", "=="),
     Tk("LESS", "<"), Tk("PLUS", "+"), Tk("MINUS", "-"), Tk("STAR", "*")}

LadderShapes == {"flat", "left", "right"}

\* a op1 b op2 c;   ( a op1 b ) op2 c;   a op1 ( b op2 c );
LadderSource(shape, op1, op2) ==
    LET a == Tk("IDENTIFIER", "a")
        b == Tk("IDENTIFIER", "b")
        c == Tk("IDENTIFIER", "c")
        open == Tk("LEFT_PAREN", "(")
        close == Tk("RIGHT_PAREN", ")")
        end == <<Tk("SEMICOLON", ";"), EndOfFile>>
    IN IF shape = "flat" THEN <<a, op1, b, op2, c>> \o end
       ELSE IF shape = "left" THEN <<open, a, op1, b, close, op2, c>> \o end
       ELSE <<a, op1, open, b, op2, c, close>> \o end

LadderSources ==
    {LadderSource(shape, op1, op2) :
         shape \in LadderShapes, op1 \in LadderOperators, op2 \in LadderOperators}

\* print 1+2 * (8/4);
SourceArithmetic ==
    <<Tk("PRINT", "print"), NumberToken(1, "1"), Tk("PLUS", "+"), NumberToken(2, "2"),
      Tk("STAR", "*"), Tk("LEFT_PAREN", "("), NumberToken(8, "8"), Tk("SLASH", "/"),
      NumberToken(4, "4"), Tk("RIGHT_PAREN", ")"), Tk("SEMICOLON", ";"), EndOfFile>>

Sources ==
    ShortSources \cup LadderSources \cup ForSources
    \cup {SourceMalformedBetween, SourceBlockNoSemicolon, SourceFunction,
          SourceFor, SourceIfWhile, SourceManyErrors, SourceArithmetic}

ParserInit == Init

\* Lox::run: scan_tokens and Parser::new
Scan(source) ==
    /\ status = "idle"
    /\ runs = 0
    /\ parser = <<>>
    /\ parser' = [p |-> [Parser_new(source) EXCEPT !.had_error = had_error],
                  statements |-> <<>>]
    /\ status' = "parsing"
    /\ runs' = runs + 1
    /\ UNCHANGED <<mode, globals, had_runtime_error, out, errs, statements, pc, log,
                   exit_code, had_error>>
    /\ UNCHANGED <<valueVars, environmentVars>>

\* one turn of the loop of Parser::parse: d is what declaration gave back.  A
\* turn that leaves the Parser as it was would repeat for ever.
parse_turn(p, stmts, d) ==
    [p |-> [PLog(d.p, [ev |-> "turn", loop |-> "parse", from |-> p.current,
                       to |-> d.p.current])
            EXCEPT !.fault = IF @ = "none" /\ d.p.current = p.current THEN "hang" ELSE @],
     statements |-> IF d.ok THEN Append(stmts, d.node) ELSE stmts]

ParseTurn ==
    /\ status = "parsing"
    /\ ~is_at_end(parser.p)
    /\ parser' = parse_turn(parser.p, parser.statements, self_declaration(parser.p))
    /\ had_error' = parser'.p.had_error
    /\ status' = IF parser'.p.fault = "panic" THEN "aborted"
                 ELSE IF parser'.p.fault = "hang" THEN "diverged"
                 ELSE "parsing"
    /\ UNCHANGED <<mode, globals, had_runtime_error, out, errs, statements, pc, log, runs,
                   exit_code>>
    /\ UNCHANGED <<valueVars, environmentVars>>

\* parse has come back to Lox::run: with LOX.had_error run returns, and then
\* run_file exits with 65 and run_prompt clears the flags; without it the
\* statements go to interpret
Parsed ==
    /\ status = "parsing"
    /\ is_at_end(parser.p)
    /\ IF had_error
       THEN /\ status' = IF mode = "file" THEN "exited" ELSE "idle"
            /\ exit_code' = IF mode = "file" THEN 65 ELSE exit_code
            /\ had_error' = (mode = "file")
            /\ UNCHANGED <<statements, pc>>
       ELSE /\ status' = "running"
            /\ statements' = parser.statements
            /\ pc' = 1
            /\ UNCHANGED <<exit_code, had_error>>
    /\ UNCHANGED <<mode, globals, had_runtime_error, out, errs, log, runs, parser>>
    /\ UNCHANGED <<valueVars, environmentVars>>

ParserNext ==
    \/ \E source \in Sources : Scan(source)
    \/ ParseTurn
    \/ Parsed
    \/ Interpret
    \/ Finish

SpecParser == ParserInit /\ [][ParserNext]_vars

(***************************************************************************)
(* Properties.  They read the host state and the history log of the        *)
(* statement executed last.                                                *)
(***************************************************************************)
\* the names a lookup through env can find
Visible(env) == UNION {DOMAIN env[i] : i \in DOMAIN env}

\* truthiness of the language: only false and nil are falsy
IsTruthy(v) == ~(v.t = "Nil" \/ (v.t = "Boolean" /\ ~v.b))

\* the indexes of the log records of one kind
Events(kind) == {i \in DOMAIN log : log[i].ev = kind}

\* the records of what happened inside the block or call of record i
Inside(i) == (log[i].start + 1) .. (i - 1)

\* those of Inside(i) that are not inside a call made from within
OwnEvents(i) ==
    {j \in Inside(i) : ~\E c \in (j + 1) .. (i - 1) : log[c].ev = "call" /\ log[c].start < j}

\* the names the Var statements of a statement list declare
VarNames(stmts) == {stmts[j].name.lexeme : j \in {j \in DOMAIN stmts : stmts[j].k = "Var"}}

\* the parameter names of a function value
ParamNames(func) == {func.params[j].lexeme : j \in DOMAIN func.params}

AssignedInside(i, n) == \E j \in Inside(i) : log[j].ev = "assign" /\ log[j].name = n

\* n was bound inside the block or call of record i: by a Var or Function
\* statement, or as a parameter of a call
DefinedInside(i, n) ==
    \/ \E j \in Inside(i) : log[j].ev = "define" /\ log[j].name = n
    \/ \E j \in Inside(i) : log[j].ev = "call" /\ n \in ParamNames(log[j].func)

\* C1: once a top-level statement of an interpret call has failed with a
\* runtime error, the error is reported and no later statement of that call is
\* executed: nothing more is printed and the environment no longer changes.
C1_ErrorEndsInterpret ==
    [][(status = "running" /\ had_runtime_error)
       => (errs # <<>> /\ pc' = pc /\ out' = out /\ globals' = globals)]_vars

\* C2: when a Block comes back, normally or with an error or a return signal,
\* the scope chain is as deep as on entry and every frame of the entry chain is
\* still there with all its names.
C2_BlockRestoresScope ==
    \A i \in Events("block") :
        /\ Len(log[i].exit) = Len(log[i].entry)
        /\ \A j \in DOMAIN log[i].entry : DOMAIN log[i].entry[j] \subseteq DOMAIN log[i].exit[j]

\* C3: a name a Block declares with var is, after the Block, undefined if it
\* was undefined before, and otherwise (shadowing, the block not assigning to
\* it) still bound to the value it had before the Block.
C3_BlockDeclarationsStayLocal ==
    \A i \in Events("block") :
        \A n \in VarNames(log[i].statements) :
            IF n \in Visible(log[i].entry)
            THEN AssignedInside(i, n) \/ get(log[i].exit, Id(n)) = get(log[i].entry, Id(n))
            ELSE n \notin Visible(log[i].exit)

\* C4: when a Block that has finished assigned to a name that an enclosing
\* scope defines and the Block does not, the name is afterwards bound, in the
\* enclosing scope, to the value assigned last.
C4_AssignmentReachesEnclosingScope ==
    \A i \in Events("block") :
        log[i].result.k = "Ok" =>
            \A j \in Inside(i) :
                (/\ log[j].ev = "assign"
                 /\ log[j].name \in Visible(log[i].entry)
                 /\ ~DefinedInside(i, log[j].name)
                 /\ ~\E l \in (j + 1) .. (i - 1) :
                        log[l].ev = "assign" /\ log[l].name = log[j].name)
                => get(log[i].exit, Id(log[j].name)) = Ok(log[j].value)

\* C5: after a call whose body finished normally or by return, the caller's
\* scope chain is as deep as before, every name visible before is still
\* visible, and no parameter or body variable of the callee has become visible.
C5_CallKeepsCallerScope ==
    \A i \in Events("call") :
        log[i].result.k = "Ok" =>
            /\ Len(log[i].exit) = Len(log[i].entry)
            /\ Visible(log[i].entry) \subseteq Visible(log[i].exit)
            /\ \A n \in ParamNames(log[i].func) \cup VarNames(log[i].func.body) :
                   n \notin Visible(log[i].entry) => n \notin Visible(log[i].exit)

\* C6: a call yields nil when its body ran to its end without return and
\* without error; the value of the return statement its body executed, after
\* which no further statement is executed, however deep in blocks and loops
\* the return sits; and the very runtime error (token and message) that was
\* raised in its body.
C6_CallResult ==
    \A i \in Events("call") :
        LET returns == {j \in OwnEvents(i) : log[j].ev = "return"}
            raises == {j \in Inside(i) : log[j].ev = "raise"}
        IN /\ (returns = {} /\ raises = {}) => log[i].result = Ok(Nil)
           /\ \A j \in returns :
                  /\ log[i].result = Ok(log[j].value)
                  /\ ~\E l \in (j + 1) .. (i - 1) : log[l].ev = "stmt"
           /\ \A j \in raises : log[i].result = log[j].result

\* a call has come back whose return statement sat inside a block that was
\* unwound, with statements left unexecuted behind it
C6_Witness ==
    \E i \in Events("call") :
        /\ \E j \in OwnEvents(i) :
               /\ log[j].ev = "return"
               /\ log[i].result = Ok(log[j].value)
               /\ \E l \in (j + 1) .. (i - 1) : log[l].ev = "block"
        /\ Len(log[i].func.body) > 1

\* f was called with the argument x of ArgsOfF: the print statement of
\* ProgF(x) has been executed, or has brought the interpreter down
CalledF(x) == statements = ProgF(x) /\ (pc = 3 \/ status = "aborted")

\* C7: f(a){ if (a) { return 1; } return 2; } yields 1 for every truthy
\* argument (true, numbers, strings, functions) and 2 for false and nil.
C7_TruthyArgumentYieldsOne ==
    \A x \in ArgsOfF :
        CalledF(x) =>
            /\ status # "aborted"
            /\ out # <<>>
            /\ out[Len(out)] = Number(IF x \in {False, NilLit} THEN 2 ELSE 1)

\* C8: left or right is left's value, right not evaluated, when left is truthy;
\* when left is falsy, right is evaluated and the result is right's value.
C8_OrShortCircuit ==
    \A i \in Events("logical") :
        log[i].op = "OR" =>
            IF IsTruthy(log[i].left)
            THEN ~log[i].right /\ log[i].result = Ok(log[i].left)
            ELSE log[i].right

\* C9: left and right is left's own value, right not evaluated, when left is
\* falsy; when left is truthy, right is evaluated and the result is right's
\* value.
C9_AndShortCircuit ==
    \A i \in Events("logical") :
        log[i].op = "AND" =>
            IF IsTruthy(log[i].left)
            THEN log[i].right
            ELSE ~log[i].right /\ log[i].result = Ok(log[i].left)

\* C10: a while statement goes into its body exactly when the condition it has
\* just evaluated is a value other than false and nil.
C10_WhileUsesTruthiness ==
    \A i \in Events("while") : log[i].enter <=> IsTruthy(log[i].value)

\* C11: !x is true exactly when x is false or nil, and false for every other
\* value (every number, every string, every function); so !!x is true for
\* every x that is neither a boolean nor nil.
C11_NotFollowsTruthiness ==
    /\ Len(applied) >= 1 => applied[1] = Boolean(~IsTruthy(operand))
    /\ (Len(applied) = 2 /\ operand.t \notin {"Boolean", "Nil"}) => applied[2] = Boolean(TRUE)

\* ! has been applied twice to the number 0
C11_Witness ==
    /\ operand = Number(0)
    /\ applied = <<Boolean(FALSE), Boolean(TRUE)>>

\* the frame names of a chain, frame by frame
FrameNames(chain) == [j \in DOMAIN chain |-> DOMAIN chain[j]]

\* C19: assign on a chain none of whose frames defines the name fails with the
\* undefined-variable error on the name's token and leaves the chain as it
\* was; and no assign, failed or not, changes the names any frame holds.
C19_AssignNeverDefines ==
    last.op = "assign" =>
        /\ last.name \notin Visible(last.before) =>
               /\ last.result = RuntimeError(Token("IDENTIFIER", last.name, 1),
                                             "Undefined variable '" \o last.name \o "'.")
               /\ scope = last.before
        /\ FrameNames(scope) = FrameNames(last.before)

\* an assign has failed on a chain of several frames that hold other names
C19_Witness ==
    /\ last.op = "assign"
    /\ last.name \notin Visible(last.before)
    /\ Len(last.before) > 1
    /\ Visible(last.before) # {}
    /\ last.result.k = "RuntimeError"

\* the frame nearest to the head of the chain that defines n
Nearest(chain, n) ==
    CHOOSE j \in DOMAIN chain :
        n \in DOMAIN chain[j] /\ \A k \in 1 .. (j - 1) : n \notin DOMAIN chain[k]

\* C20: get gives the value bound in the nearest frame that defines the name,
\* and fails with the undefined-variable error only when no frame defines it;
\* new_enclosing(parent) has no bindings of its own and parent as its
\* enclosing Environment, so that every name of parent reads the same through it.
C20_GetFindsNearestBinding ==
    /\ last.op = "get" =>
           IF last.name \in Visible(last.before)
           THEN last.result = Ok(last.before[Nearest(last.before, last.name)][last.name])
           ELSE last.result = RuntimeError(Token("IDENTIFIER", last.name, 1),
                                           "Undefined variable '" \o last.name \o "'.")
    /\ last.op = "new_enclosing" =>
           /\ DOMAIN scope[1] = {}
           /\ get_enclosing_env(scope) = <<last.before>>
           /\ \A n \in Visible(last.before) :
                  get(scope, Token("IDENTIFIER", n, 1))
                      = get(last.before, Token("IDENTIFIER", n, 1))

\* get has found, two frames up, a name that the frames below do not define
C20_Witness ==
    /\ last.op = "get"
    /\ last.name \in Visible(last.before)
    /\ Nearest(last.before, last.name) = 3
    /\ last.result.k = "Ok"

\* C17: a call with a number of arguments other than the number of declared
\* parameters yields a runtime error on the call's closing parenthesis; no
\* statement of the body is executed and no parameter is bound.
C17_ArityMismatchIsAnError ==
    \A i \in Events("apply") :
        (log[i].callee.t = "LoxFunction" /\ log[i].count # Len(log[i].callee.params)) =>
            /\ i < Len(log)
            /\ log[i + 1].ev = "raise"
            /\ log[i + 1].result.k = "RuntimeError"
            /\ log[i + 1].result.token = log[i].paren
            /\ log[i + 1].globals = log[i].entry

\* m, of two parameters, was called with three arguments inside a block
C17_Witness ==
    \E i \in Events("apply") :
        /\ log[i].count = 3
        /\ Len(log[i].callee.params) = 2
        /\ log[i].paren.line = 3
        /\ log[i + 1].ev = "raise"
        /\ Len(log[i].entry) > 1

\* the return statements executed outside every function call
EscapedReturns ==
    {j \in Events("return") :
        ~\E c \in (j + 1) .. Len(log) : log[c].ev = "call" /\ log[c].start < j}

\* C18: a return signal never reaches the host as a failure: a return executed
\* inside a function body is consumed by the nearest call, and one executed
\* outside every call, at top level or inside blocks, becomes an ordinary
\* reported error and does not bring the interpreter down.
C18_ReturnNeverCrashesHost ==
    /\ \A i \in Events("call") :
           \A j \in OwnEvents(i) : log[j].ev = "return" => log[i].result = Ok(log[j].value)
    /\ EscapedReturns # {} => (status # "aborted" /\ errs # <<>>)

(***************************************************************************)
(* The parser (SpecParser).  ParserLog is the history of the Parser of the *)
(* run under way, and ParseIsOver says that parse has come back.           *)
(***************************************************************************)
ParserLog == IF parser = <<>> THEN <<>> ELSE parser.p.plog

ParseIsOver == parser # <<>> /\ status # "parsing"

\* the events of the given kind, as indices of the history
EventsOf(kind) == {i \in 1 .. Len(ParserLog) : ParserLog[i].ev = kind}

\* the token at the 0-based position i of the source being parsed
TokenAt(i) == parser.p.tokens[i + 1]

\* C12: the source `print 1; print ; print 2;` (a malformed statement between
\* two well-formed ones) reports exactly one parse error, parse returns the
\* two well-formed statements in order, and both are executed.
C12_WellFormedNeighboursAreExecuted ==
    (/\ ParseIsOver
     /\ parser.p.tokens = SourceMalformedBetween
     /\ status \in {"idle", "exited"})
    => /\ Len(parser.p.reports) = 1
       /\ parser.statements = <<PrintStmt(Literal(LitNumber(1))),
                                PrintStmt(Literal(LitNumber(2)))>>
       /\ out = <<Number(1), Number(2)>>

\* C13: every ParseError the parser creates is reported, and whenever
\* declaration has dropped a statement (given back None) the had-error flag
\* is set.
C13_EveryParseErrorIsReported ==
    /\ \A i \in EventsOf("error") : ParserLog[i].reported
    /\ EventsOf("none") # {} => parser.p.had_error

\* the errors created by the declaration that ended with the "none" event i
\* itself, not by a declaration nested in it that failed too
OwnErrors(i) ==
    {j \in EventsOf("error") :
        /\ ParserLog[i].start < j /\ j < i
        /\ \A k \in EventsOf("none") : k < i /\ ParserLog[i].start < k
                                        => ~(ParserLog[k].start < j /\ j < k)}

\* C14: every malformed statement (a declaration that failed, at the top
\* level or nested in a block or function body) has exactly one reported
\* error, and no error is reported at a token that recovery has skipped.
C14_OneReportPerMalformedStatement ==
    /\ \A i \in EventsOf("none") :
          Cardinality({j \in OwnErrors(i) : ParserLog[j].reported}) = 1
    /\ \A j \in EventsOf("error"), k \in EventsOf("sync") :
          k < j => ParserLog[j].at >= ParserLog[k].to

\* synchronize may stop with the cursor at r: the token before r is a
\* semicolon, or the token at r starts a statement or is EOF
Boundary(r) ==
    \/ TokenAt(r - 1).token_type = "SEMICOLON"
    \/ TokenAt(r).token_type \in Boundaries
    \/ TokenAt(r).token_type = "EOF"

\* r is the smallest position after e at which synchronize may stop
Resumes(e, r) ==
    /\ r > e
    /\ r < Len(parser.p.tokens)
    /\ Boundary(r)
    /\ \A k \in (e + 1) .. (r - 1) : ~Boundary(k)

\* recovery began where the error was created, the declaration gave back None
\* with the cursor where recovery left it, and the loop's turn ended there
RecoveryAround(i) ==
    /\ \E j \in EventsOf("error") :
          /\ j < i
          /\ ParserLog[j].at = ParserLog[i].from
          /\ \A k \in (j + 1) .. (i - 1) : ParserLog[k].ev = "turn"
                                         /\ ParserLog[k].loop = "synchronize"
    /\ i < Len(ParserLog) => ParserLog[i + 1].ev = "none"
    /\ i + 1 < Len(ParserLog) => /\ ParserLog[i + 2].ev = "turn"
                                 /\ ParserLog[i + 2].to = ParserLog[i].to

\* the turns of parse's loop whose declaration gave back None
FailedTurns ==
    {i \in EventsOf("turn") :
        ParserLog[i].loop = "parse" /\ i > 1 /\ ParserLog[i - 1].ev = "none"}

\* the list parse is building has one statement for every turn that did not fail
NothingAddedByFailures ==
    parser # <<>> =>
        Len(parser.statements) =
            Cardinality({i \in EventsOf("turn") : ParserLog[i].loop = "parse"})
            - Cardinality(FailedTurns)

\* C15 as stated: after a parse error with the cursor at e, recovery leaves
\* the cursor at the smallest r > e that is a boundary, parsing resumes
\* there, and the failed statement adds nothing to the list.
C15_RecoveryResumesPastTheError ==
    /\ \A i \in EventsOf("sync") :
          /\ Resumes(ParserLog[i].from, ParserLog[i].to)
          /\ RecoveryAround(i)
    /\ NothingAddedByFailures

\* C15 as amended: as above, except that an error with the cursor on EOF
\* leaves the cursor there.
C15_RecoveryResumesAtBoundary ==
    /\ \A i \in EventsOf("sync") :
          /\ IF TokenAt(ParserLog[i].from).token_type = "EOF"
             THEN ParserLog[i].to = ParserLog[i].from
             ELSE Resumes(ParserLog[i].from, ParserLog[i].to)
          /\ RecoveryAround(i)
    /\ NothingAddedByFailures

\* a recovery that skipped tokens up to a keyword, in a parse that went on
\* and kept a later statement
C15_Witness ==
    /\ ParseIsOver
    /\ parser.statements # <<>>
    /\ \E i \in EventsOf("sync") :
          /\ ParserLog[i].to > ParserLog[i].from + 1
          /\ TokenAt(ParserLog[i].to).token_type \in Boundaries
          /\ TokenAt(ParserLog[i].to - 1).token_type # "SEMICOLON"

\* C16: parse always comes back: every turn of its loop, of block's loop and
\* of synchronize's loop moves the cursor forward and leaves it inside the
\* token list, no index or unwrap panics (previous is never asked for at
\* position 0), and parse comes back with the cursor on EOF.
C16_EveryTurnAdvances ==
    parser # <<>> =>
        /\ parser.p.fault = "none"
        /\ parser.p.current < Len(parser.p.tokens)
        /\ \A i \in EventsOf("turn") :
              /\ ParserLog[i].to > ParserLog[i].from
              /\ ParserLog[i].to < Len(parser.p.tokens)
        /\ Cardinality(EventsOf("turn")) <= parser.p.current
        /\ ParseIsOver => is_at_end(parser.p)

\* a parse that is over and went through all three loops
C16_Witness ==
    /\ ParseIsOver
    /\ \A loop \in {"parse", "block", "synchronize"} :
          \E i \in EventsOf("turn") : ParserLog[i].loop = loop

\* C21: define always succeeds and changes the local frame only: afterwards
\* the local frame maps the name to the value, its other bindings are as
\* before, and every enclosing frame is as before, also one that defines the
\* name.
C21_DefineChangesLocalFrameOnly ==
    last.op = "define" =>
        /\ Len(scope) = Len(last.before)
        /\ DOMAIN scope[1] = DOMAIN last.before[1] \cup {last.name}
        /\ scope[1][last.name] = last.value
        /\ \A n \in DOMAIN last.before[1] \ {last.name} : scope[1][n] = last.before[1][n]
        /\ \A j \in 2 .. Len(scope) : scope[j] = last.before[j]

\* a define has replaced a local binding of a name that the enclosing frame
\* defines too, with another value
C21_Witness ==
    /\ last.op = "define"
    /\ Len(last.before) > 1
    /\ last.name \in DOMAIN last.before[1]
    /\ last.before[1][last.name] # last.value
    /\ last.name \in DOMAIN last.before[2]
    /\ last.before[2][last.name] # last.value
    /\ DOMAIN last.before[1] # {last.name}

\* C22: unary minus applied to a value that is not a number ends in a
\* runtime error: the evaluation neither aborts nor gives a value.
C22_NegatingNonNumberIsRuntimeError ==
    (outcome.op = "negate" /\ outcome.left.t # "Number") => outcome.r.k = "RuntimeError"

\* C23: + succeeds exactly on two numbers and on two strings, the other
\* typed operators exactly on two numbers; every other pair of operands ends
\* in a runtime error at the operator token; and in each case the left
\* operand, then the right one, has been evaluated before the types are
\* checked.
C23_BinaryTypeRules ==
    outcome.op = "binary" =>
        LET numbers == outcome.left.t = "Number" /\ outcome.right.t = "Number"
            strings == outcome.left.t = "String" /\ outcome.right.t = "String"
            succeeds == IF outcome.operator.token_type = "PLUS" THEN numbers \/ strings
                        ELSE numbers
        IN /\ succeeds => outcome.r.k = "Ok"
           /\ ~succeeds => (outcome.r.k = "RuntimeError" /\ outcome.r.token = outcome.operator)
           /\ Len(outcome.log) = (IF succeeds THEN 2 ELSE 3)
           /\ outcome.log[1] = [ev |-> "assign", name |-> "a", value |-> outcome.left]
           /\ outcome.log[2] = [ev |-> "assign", name |-> "a", value |-> outcome.right]
           /\ ~succeeds => outcome.log[3].ev = "raise"

\* a number minus a string has raised a runtime error at the minus, after
\* both operands were evaluated
C23_Witness ==
    /\ outcome.op = "binary"
    /\ outcome.operator.token_type = "MINUS"
    /\ outcome.left = Number(1)
    /\ outcome.right = String("a")
    /\ outcome.r.k = "RuntimeError"
    /\ Len(outcome.log) = 3

\* C24: == and != never raise an error; on values of different tags == is
\* false and != is true; != is always the negation of ==; on two strings or
\* two finite numbers == is reflexive and symmetric.
C24_EqualityNeverErrors ==
    outcome.op = "equality" =>
        LET finite(v) == v.t = "String" \/ (v.t = "Number" /\ v.d # 0)
        IN /\ outcome.eq.k = "Ok" /\ outcome.eq.value.t = "Boolean"
           /\ outcome.ne.k = "Ok" /\ outcome.ne.value.t = "Boolean"
           /\ outcome.ne.value.b = ~outcome.eq.value.b
           /\ outcome.left.t # outcome.right.t => outcome.eq.value = Boolean(FALSE)
           /\ outcome.left.t # outcome.right.t => outcome.ne.value = Boolean(TRUE)
           /\ finite(outcome.left) => outcome.self = Ok(Boolean(TRUE))
           /\ (finite(outcome.left) /\ finite(outcome.right)) => outcome.swapped = outcome.eq

\* nil has been compared with false
C24_Witness ==
    /\ outcome.op = "equality"
    /\ outcome.left = Nil
    /\ outcome.right = Boolean(FALSE)
    /\ outcome.eq = Ok(Boolean(FALSE))
    /\ outcome.ne = Ok(Boolean(TRUE))

\* the level of an operator on the precedence ladder, lowest first
LadderLevel(operator) ==
    CASE operator.token_type = "EQUAL" -> 1
      [] operator.token_type = "OR" -> 2
      [] operator.token_type = "AND" -> 3
      [] operator.token_type = "EQUAL_EQUAL" -> 4
      [] operator.token_type = "LESS" -> 5
      [] operator.token_type \in {"PLUS", "MINUS"} -> 6
      [] operator.token_type = "STAR" -> 7

\* the tree of `left operator right`
LadderNode(left, operator, right) ==
    IF operator.token_type = "EQUAL" THEN Assign(left.name, right)
    ELSE IF operator.token_type \in {"OR", "AND"} THEN Logical(left, operator, right)
    ELSE Binary(left, operator, right)

\* whether op2 takes its left operand before op1 takes its right one
BindsTighter(op1, op2) ==
    \/ LadderLevel(op2) > LadderLevel(op1)
    \/ (op1.token_type = "EQUAL" /\ op2.token_type = "EQUAL")

\* whether the grammar lets the source through: the left side of = has to be
\* a variable
LadderAccepts(shape, op1, op2) ==
    /\ (shape = "flat" /\ op2.token_type = "EQUAL") => op1.token_type = "EQUAL"
    /\ shape = "left" => op2.token_type # "EQUAL"

\* the tree the precedence ladder gives the source
LadderTree(shape, op1, op2) ==
    LET a == Variable(Tk("IDENTIFIER", "a"))
        b == Variable(Tk("IDENTIFIER", "b"))
        c == Variable(Tk("IDENTIFIER", "c"))
    IN IF shape = "left" THEN LadderNode(Grouping(LadderNode(a, op1, b)), op2, c)
       ELSE IF shape = "right" THEN LadderNode(a, op1, Grouping(LadderNode(b, op2, c)))
       ELSE IF BindsTighter(op1, op2) THEN LadderNode(a, op1, LadderNode(b, op2, c))
       ELSE LadderNode(LadderNode(a, op1, b), op2, c)

\* C25: the parser builds its trees by the precedence ladder: of two
\* operators in a row the one higher on the ladder takes the operand between
\* them, operators of one level associate to the left, assignment to the
\* right, and a parenthesised group is an operand of its own; so that
\* 1+2 * (8/4) evaluates to 5.
C25_TreesFollowPrecedenceLadder ==
    /\ \A shape \in LadderShapes, op1 \in LadderOperators, op2 \in LadderOperators :
           (/\ ParseIsOver
            /\ parser.p.tokens = LadderSource(shape, op1, op2)
            /\ LadderAccepts(shape, op1, op2))
           => /\ ~parser.p.had_error
              /\ parser.statements = <<Expression(LadderTree(shape, op1, op2))>>
    /\ (ParseIsOver /\ parser.p.tokens = SourceArithmetic /\ status = "running" /\ pc = 2)
           => (out = <<Number(5)>> /\ errs = <<>>)

\* a - b * c; has been parsed into one statement
C25_Witness ==
    /\ ParseIsOver
    /\ parser.p.tokens = LadderSource("flat", Tk("MINUS", "-"), Tk("STAR", "*"))
    /\ Len(parser.statements) = 1
    /\ parser.statements[1].expression.right.k = "Binary"

\* the history of the for statement of the source, once interpret has come
\* back from it or has been found to loop for ever
ForLog == IF pc = 2 \/ status = "diverged" THEN log ELSE <<>>

\* the turns of the loop that went into the body, as indices of ForLog
ForTurns == {w \in 1 .. Len(ForLog) : ForLog[w].ev = "while" /\ ForLog[w].enter}

\* the evaluations of the loop condition, as indices of ForLog
ForChecks == {w \in 1 .. Len(ForLog) : ForLog[w].ev = "while"}

C27_AssignmentInCallPersists ==
    \A i \in Events("call") :
        log[i].result.k = "Ok" =>
            \A j \in Inside(i) :
                (/\ log[j].ev = "assign"
                 /\ log[j].name \in Visible(log[i].entry)
                 /\ log[j].name \notin ParamNames(log[i].func)
                 /\ ~DefinedInside(i, log[j].name)
                 /\ ~\E l \in (j + 1) .. (i - 1) :
                        log[l].ev = "assign" /\ log[l].name = log[j].name)
                => get(log[i].exit, Id(log[j].name)) = Ok(log[j].value)

\* C28: when execute_block is left because a statement gave an error or a
\* return signal, the current environment is again the one execute_block was
\* entered with, for a Block and for a function body alike: whatever was
\* bound or assigned meanwhile, in enclosing scopes too, is undone.
C28_FailedBlockRestoresEntryEnvironment ==
    /\ \A i \in Events("block") :
           log[i].result.k \in {"RuntimeError", "ReturnValue"} => log[i].exit = log[i].entry
    /\ \A i \in Events("call") :
           log[i].body \in {"RuntimeError", "ReturnValue"} => log[i].exit = log[i].entry

\* a function body that assigned to a variable of the caller has been left by
\* a return, and the variable is bound as it was before the call
C28_Witness ==
    \E i \in Events("call") :
        /\ log[i].body = "ReturnValue"
        /\ \E j \in Inside(i) :
               /\ log[j].ev = "assign"
               /\ log[j].name \in Visible(log[i].entry)
               /\ get(log[i].entry, Id(log[j].name)) # Ok(log[j].value)
               /\ get(log[i].exit, Id(log[j].name)) = get(log[i].entry, Id(log[j].name))

\* C29: a call whose callee is not a function ends in a runtime error: the
\* evaluation neither aborts nor reaches an unreachable branch.
C29_CallingNonFunctionIsRuntimeError ==
    (outcome.op = "call" /\ outcome.left.t # "LoxFunction") => outcome.r.k = "RuntimeError"

====
